---------------------------- MODULE Spec2Model ----------------------------
(***************************************************************************)
(* Witcher Tracker: the line-oriented command interpreter.                 *)
(*                                                                         *)
(* A line is a sequence of characters (one-character strings); a token is  *)
(* a sequence of characters too.  Positions are 0-based as in the source,  *)
(* so input[i] of the source is input[i + 1] here.                         *)
(***************************************************************************)
EXTENDS Integers, Sequences, FiniteSets, TLC

(***************************************************************************)
(* Characters (cctype).                                                    *)
(***************************************************************************)
Whitespace == {" ", "\t", "\n", "\r", "\f"}

Digits == <<"0", "1", "2", "3", "4", "5", "6", "7", "8", "9">>

Letters ==
    {"a", "b", "c", "d", "e", "f", "g", "h", "i", "j", "k", "l", "m",
     "n", "o", "p", "q", "r", "s", "t", "u", "v", "w", "x", "y", "z",
     "A", "B", "C", "D", "E", "F", "G", "H", "I", "J", "K", "L", "M",
     "N", "O", "P", "Q", "R", "S", "T", "U", "V", "W", "X", "Y", "Z"}

isspace(c) == c \in Whitespace

isdigit(c) == \E k \in 1..10 : Digits[k] = c

isalpha(c) == c \in Letters

(***************************************************************************)
(* The string literals of the source.                                      *)
(***************************************************************************)
kw_What == <<"W", "h", "a", "t">>
kw_is == <<"i", "s">>
kw_in == <<"i", "n">>
kw_effective == <<"e", "f", "f", "e", "c", "t", "i", "v", "e">>
kw_against == <<"a", "g", "a", "i", "n", "s", "t">>
kw_Total == <<"T", "o", "t", "a", "l">>
kw_Geralt == <<"G", "e", "r", "a", "l", "t">>
kw_brews == <<"b", "r", "e", "w", "s">>
kw_learns == <<"l", "e", "a", "r", "n", "s">>
kw_sign == <<"s", "i", "g", "n">>
kw_potion == <<"p", "o", "t", "i", "o", "n">>
kw_consists == <<"c", "o", "n", "s", "i", "s", "t", "s">>
kw_of == <<"o", "f">>
kw_trades == <<"t", "r", "a", "d", "e", "s">>
kw_loots == <<"l", "o", "o", "t", "s">>
kw_for == <<"f", "o", "r">>
kw_trophy == <<"t", "r", "o", "p", "h", "y">>
kw_encounters == <<"e", "n", "c", "o", "u", "n", "t", "e", "r", "s">>
kw_a == <<"a">>
kw_Exit == <<"E", "x", "i", "t">>
kw_ingredient == <<"i", "n", "g", "r", "e", "d", "i", "e", "n", "t">>
kw_comma == <<",">>
kw_question == <<"?">>

(***************************************************************************)
(* The scanning loops of tokenizeInput.                                    *)
(***************************************************************************)
\* while (i < inputLen && <input[i] is in S>) i++;
RECURSIVE SkipWhile(_, _, _)
SkipWhile(input, i, S) ==
    IF i < Len(input) /\ input[i + 1] \in S
    THEN SkipWhile(input, i + 1, S)
    ELSE i

\* while (i < inputLen && <input[i] is not in S>) i++;
RECURSIVE SkipUntil(_, _, _)
SkipUntil(input, i, S) ==
    IF i < Len(input) /\ input[i + 1] \notin S
    THEN SkipUntil(input, i + 1, S)
    ELSE i

\* while (end > start && isspace(input[end - 1])) end--;
RECURSIVE TrimEnd(_, _, _)
TrimEnd(input, start, end) ==
    IF end > start /\ isspace(input[end])
    THEN TrimEnd(input, start, end - 1)
    ELSE end

\* input.substr(pos, n), for pos <= inputLen
substr(input, pos, n) ==
    SubSeq(input, pos + 1, IF pos + n < Len(input) THEN pos + n ELSE Len(input))

\* i < inputLen && input.substr(i, |word|) == word &&
\*     (i + |word| >= inputLen || isspace(input[i + |word|]))
WordAt(input, i, word) ==
    /\ i < Len(input)
    /\ substr(input, i, Len(word)) = word
    /\ (i + Len(word) >= Len(input) \/ isspace(input[i + Len(word) + 1]))

\* The loop that splits on whitespace and makes every comma a token of its
\* own; it runs from position i to the end of the input.
RECURSIVE GenericLoop(_, _, _)
GenericLoop(input, i, tokens) ==
    LET j == SkipWhile(input, i, Whitespace)
        k == SkipUntil(input, j, Whitespace \cup {","})
    IN  IF j >= Len(input) THEN tokens
        ELSE IF input[j + 1] = ","
             THEN GenericLoop(input, j + 1, Append(tokens, kw_comma))
             ELSE GenericLoop(input, k,
                     IF k - j > 0 THEN Append(tokens, SubSeq(input, j + 1, k))
                                  ELSE tokens)

\* A name captured up to the first '?' (or to the end of the input), trimmed
\* of trailing whitespace, then the '?' token and the generic loop behind it.
QuestionTail(input, i, tokens) ==
    LET q == SkipUntil(input, i, {"?"})
        nameEnd == TrimEnd(input, i, q)
        named == IF nameEnd - i > 0
                 THEN Append(tokens, SubSeq(input, i + 1, nameEnd))
                 ELSE tokens
    IN  IF q < Len(input)
        THEN GenericLoop(input, q + 1, Append(named, kw_question))
        ELSE named

\* The branch for a leading "What".  It returns the tokens when the line is
\* "What is in ..." or "What is effective against ..."; otherwise control
\* leaves the branch with the tokens pushed so far and the position reached.
WhatBranch(input, i0) ==
    IF ~WordAt(input, i0, kw_What)
    THEN [returned |-> FALSE, tokens |-> <<>>, i |-> i0]
    ELSE
    LET i1 == SkipWhile(input, i0 + 4, Whitespace)
        i2 == SkipWhile(input, i1 + 2, Whitespace)
        i3 == SkipWhile(input, i2 + 9, Whitespace)
    IN  IF ~WordAt(input, i1, kw_is)
        THEN [returned |-> FALSE, tokens |-> <<kw_What>>, i |-> i1]
        ELSE IF WordAt(input, i2, kw_in)
        THEN [returned |-> TRUE,
              tokens |-> QuestionTail(input, SkipWhile(input, i2 + 2, Whitespace),
                                      <<kw_What, kw_is, kw_in>>),
              i |-> Len(input)]
        ELSE IF ~WordAt(input, i2, kw_effective)
        THEN [returned |-> FALSE, tokens |-> <<kw_What, kw_is>>, i |-> i2]
        ELSE IF WordAt(input, i3, kw_against)
        THEN [returned |-> TRUE,
              tokens |-> QuestionTail(input, SkipWhile(input, i3 + 7, Whitespace),
                                      <<kw_What, kw_is, kw_effective, kw_against>>),
              i |-> Len(input)]
        ELSE [returned |-> FALSE, tokens |-> <<kw_What, kw_is, kw_effective>>,
              i |-> i3]

\* The branch for "Total" at position i; the tokens pushed before it stay.
TotalBranch(input, i, tokens) ==
    LET catStart == SkipWhile(input, i + 5, Whitespace)
        catEnd == SkipUntil(input, catStart, Whitespace \cup {"?"})
        withCat == IF catEnd - catStart > 0
                   THEN Append(Append(tokens, kw_Total),
                               SubSeq(input, catStart + 1, catEnd))
                   ELSE Append(tokens, kw_Total)
        j == SkipWhile(input, catEnd, Whitespace)
    IN  IF j < Len(input) /\ input[j + 1] = "?"
        THEN GenericLoop(input, j + 1, Append(withCat, kw_question))
        ELSE IF j >= Len(input) THEN withCat
        ELSE QuestionTail(input, j, withCat)

\* The ingredient list behind "consists of".
RECURSIVE ConsistsLoop(_, _, _)
ConsistsLoop(input, i, tokens) ==
    LET j == SkipWhile(input, i, Whitespace)
        \* a digit first: quantity, then the name up to whitespace or comma
        numEnd == SkipWhile(input, j, {Digits[d] : d \in 1..10})
        nameStart == SkipWhile(input, numEnd, Whitespace)
        nameEnd == SkipUntil(input, nameStart, Whitespace \cup {","})
        pair == IF nameEnd - nameStart > 0
                THEN Append(Append(tokens, SubSeq(input, j + 1, numEnd)),
                            SubSeq(input, nameStart + 1, nameEnd))
                ELSE Append(tokens, SubSeq(input, j + 1, numEnd))
        afterPair == SkipWhile(input, nameEnd, Whitespace)
        \* no digit first: one word up to whitespace or comma
        wordEnd == SkipUntil(input, j, Whitespace \cup {","})
        word == IF wordEnd - j > 0
                THEN Append(tokens, SubSeq(input, j + 1, wordEnd))
                ELSE tokens
        afterWord == SkipWhile(input, wordEnd, Whitespace)
    IN  IF j >= Len(input) THEN tokens
        ELSE IF isdigit(input[j + 1])
        THEN IF afterPair < Len(input) /\ input[afterPair + 1] = ","
             THEN ConsistsLoop(input, afterPair + 1, Append(pair, kw_comma))
             ELSE ConsistsLoop(input, afterPair, pair)
        ELSE IF afterWord < Len(input) /\ input[afterWord + 1] = ","
             THEN ConsistsLoop(input, afterWord + 1, Append(word, kw_comma))
             ELSE ConsistsLoop(input, afterWord, word)

\* What follows the name and the keyword "sign"/"potion" of a "learns" line:
\* "is effective against <monster>", or "consists of <list>", or neither.
\* tokens already end with the name and the keyword; wordEnd is the position
\* behind the keyword.
LearnsTail(input, wordEnd, tokens) ==
    LET i1 == SkipWhile(input, wordEnd, Whitespace)
        hasIs == WordAt(input, i1, kw_is)
        i2 == SkipWhile(input, i1 + 2, Whitespace)
        hasEffective == hasIs /\ WordAt(input, i2, kw_effective)
        i3 == SkipWhile(input, i2 + 9, Whitespace)
        hasAgainst == hasEffective /\ WordAt(input, i3, kw_against)
        i4 == SkipWhile(input, i3 + 7, Whitespace)
        pushed == IF hasAgainst
                  THEN tokens \o <<kw_is, kw_effective, kw_against>>
                  ELSE IF hasEffective THEN tokens \o <<kw_is, kw_effective>>
                  ELSE IF hasIs THEN Append(tokens, kw_is)
                  ELSE tokens
        \* i = wordEnd: the position is reset to behind "sign"/"potion"
        c1 == SkipWhile(input, wordEnd, Whitespace)
        c2 == SkipWhile(input, c1 + 8, Whitespace)
    IN  IF hasAgainst
        THEN IF i4 < Len(input)
             THEN Append(pushed, SubSeq(input, i4 + 1, Len(input)))
             ELSE pushed
        ELSE IF ~WordAt(input, c1, kw_consists) THEN pushed
        ELSE IF ~WordAt(input, c2, kw_of) THEN Append(pushed, kw_consists)
        ELSE ConsistsLoop(input, c2 + 2, pushed \o <<kw_consists, kw_of>>)

\* The word-by-word scan behind "Geralt learns" for the first word that is
\* "sign" or "potion"; nTemp is tempTokens.size().
RECURSIVE LearnsScan(_, _, _, _, _)
LearnsScan(input, i, learnsStartPos, nTemp, tokens) ==
    LET wordStart == SkipWhile(input, i, Whitespace)
        wordEnd == SkipUntil(input, wordStart, Whitespace)
        word == SubSeq(input, wordStart + 1, wordEnd)
        rawStart == SkipWhile(input, learnsStartPos, Whitespace)
        rawEnd == TrimEnd(input, rawStart, wordStart)
    IN  IF wordStart >= Len(input) THEN tokens
        ELSE IF wordEnd - wordStart <= 0 THEN tokens
        ELSE IF word = kw_sign \/ word = kw_potion
        THEN IF nTemp + 1 >= 2 /\ rawEnd > rawStart
             THEN LearnsTail(input, wordEnd,
                     Append(Append(tokens, SubSeq(input, rawStart + 1, rawEnd)),
                            word))
             ELSE tokens
        ELSE LearnsScan(input, wordEnd, learnsStartPos, nTemp + 1, tokens)

\* The branch for a leading "Geralt".  "loots", "encounters" and every other
\* second word leave the branch without returning.
GeraltBranch(input, i0, tokens) ==
    LET i1 == SkipWhile(input, i0 + 6, Whitespace)
        withGeralt == Append(tokens, kw_Geralt)
        nameStart == SkipWhile(input, i1 + 5, Whitespace)
        learnsStartPos == SkipWhile(input, i1 + 6, Whitespace)
    IN  IF WordAt(input, i1, kw_brews)
        THEN [returned |-> TRUE,
              tokens |-> IF nameStart < Len(input)
                         THEN withGeralt \o
                              <<kw_brews, SubSeq(input, nameStart + 1, Len(input))>>
                         ELSE Append(withGeralt, kw_brews)]
        ELSE IF WordAt(input, i1, kw_learns)
        THEN [returned |-> TRUE,
              tokens |-> LearnsScan(input, learnsStartPos, learnsStartPos, 0,
                                    Append(withGeralt, kw_learns))]
        ELSE IF WordAt(input, i1, kw_trades)
        THEN [returned |-> TRUE,
              tokens |-> GenericLoop(input, i1 + 6, Append(withGeralt, kw_trades))]
        ELSE [returned |-> FALSE, tokens |-> withGeralt]

tokenizeInput(input) ==
    LET start == SkipWhile(input, 0, Whitespace)
        what == WhatBranch(input, start)
        geralt == GeraltBranch(input, start, what.tokens)
    IN  IF what.returned THEN what.tokens
        ELSE IF WordAt(input, what.i, kw_Total)
        THEN TotalBranch(input, what.i, what.tokens)
        ELSE IF WordAt(input, start, kw_Geralt) /\ geralt.returned
        THEN geralt.tokens
        ELSE GenericLoop(input, 0, <<>>)

\* The leading-keyword branches of tokenizeInput whose push_back calls made
\* tokens of the vector it returns.  The fallback clears the vector first.
Branches(input) ==
    LET start == SkipWhile(input, 0, Whitespace)
        what == WhatBranch(input, start)
        geralt == GeraltBranch(input, start, what.tokens)
    IN  IF what.returned THEN {"What"}
        ELSE IF WordAt(input, what.i, kw_Total)
        THEN (IF what.tokens # <<>> THEN {"What"} ELSE {}) \cup {"Total"}
        ELSE IF WordAt(input, start, kw_Geralt) /\ geralt.returned
        THEN {"Geralt"}
        ELSE {}

\* tokens joined by single spaces, a comma token put directly behind the
\* token before it
RECURSIVE RejoinFrom(_, _)
RejoinFrom(toks, k) ==
    IF k > Len(toks) THEN <<>>
    ELSE (IF k = 1 THEN toks[k]
          ELSE IF toks[k] = kw_comma THEN kw_comma
          ELSE <<" ">> \o toks[k]) \o RejoinFrom(toks, k + 1)

Rejoin(toks) == RejoinFrom(toks, 1)

\* CommandParser::cleanInputLine
cleanInputLine(input) ==
    LET cleaned == IF input # <<>> /\ input[Len(input)] = "\n"
                   THEN SubSeq(input, 1, Len(input) - 1)
                   ELSE input
        start == SkipWhile(cleaned, 0, Whitespace)
        end == TrimEnd(cleaned, start, Len(cleaned))
    IN  SubSeq(cleaned, start + 1, end)

(***************************************************************************)
(* The shared predicates of the validator.  A shape checker ends in one of *)
(* four ways: it returns true (Accept), it returns false (Reject), std::stoi*)
(* throws std::out_of_range, which nothing catches (Throw), or it reads a  *)
(* token behind the end of the token vector (OutOfBounds).                 *)
(***************************************************************************)
Accept == "accept"
Reject == "reject"
Throw == "out_of_range"
OutOfBounds == "out_of_bounds"

\* the largest value of int
INT_MAX == 2147483647

DigitValue(c) == (CHOOSE k \in 1..10 : Digits[k] = c) - 1

\* std::stoi on a token of decimal digits: its value, or -1 where the value
\* does not fit an int and stoi throws std::out_of_range.
RECURSIVE StoiFrom(_, _, _)
StoiFrom(token, k, acc) ==
    IF k > Len(token) THEN acc
    ELSE IF acc > (INT_MAX - DigitValue(token[k])) \div 10 THEN -1
    ELSE StoiFrom(token, k + 1, 10 * acc + DigitValue(token[k]))

stoi(token) == StoiFrom(token, 1, 0)

isPositiveInteger(token) ==
    IF token = <<>> THEN Reject
    ELSE IF token[1] = "0" /\ Len(token) > 1 THEN Reject
    ELSE IF \E k \in 1..Len(token) : ~isdigit(token[k]) THEN Reject
    ELSE IF stoi(token) = -1 THEN Throw
    ELSE IF stoi(token) > 0 THEN Accept
    ELSE Reject

isAlphabeticOnly(token) ==
    /\ token # <<>>
    /\ \A k \in 1..Len(token) : isalpha(token[k])

hasCommaSpacingError(tokens) ==
    \E i \in 1..Len(tokens) :
        /\ tokens[i] = kw_comma
        /\ \/ i = 1
           \/ i = Len(tokens)
           \/ tokens[i - 1] = kw_comma
           \/ tokens[i + 1] = kw_comma

\* letters and spaces, no two spaces in a row (the loop over the characters)
LettersAndSingleSpaces(token) ==
    \A k \in 1..Len(token) :
        IF token[k] = " "
        THEN k = 1 \/ token[k - 1] # " "
        ELSE isalpha(token[k])

isValidPotionNameToken(token) ==
    /\ token # <<>>
    /\ LettersAndSingleSpaces(token)

(***************************************************************************)
(* The shape checkers.  Each one tokenizes its input with tokenizeInput,   *)
(* which is a function of the input alone; here each takes the tokens.     *)
(* Token positions are 0-based as in the source: tokens[k] there is        *)
(* tokens[k + 1] here.                                                     *)
(***************************************************************************)
\* the while loop of isLootAction
RECURSIVE LootList(_, _)
LootList(tokens, tokenIndex) ==
    IF tokenIndex >= Len(tokens) THEN Accept
    ELSE IF isPositiveInteger(tokens[tokenIndex + 1]) # Accept
    THEN isPositiveInteger(tokens[tokenIndex + 1])
    ELSE IF tokenIndex + 1 >= Len(tokens)
            \/ ~isAlphabeticOnly(tokens[tokenIndex + 2])
    THEN Reject
    ELSE IF tokenIndex + 2 < Len(tokens) /\ tokens[tokenIndex + 3] = kw_comma
    THEN IF tokenIndex + 3 >= Len(tokens) THEN Reject
         ELSE LootList(tokens, tokenIndex + 3)
    ELSE LootList(tokens, tokenIndex + 2)

\* isLootAction without its walk over the list
isLootAction_HeadOnly(tokens) ==
    IF Len(tokens) < 4 THEN Reject
    ELSE IF tokens[1] # kw_Geralt \/ tokens[2] # kw_loots THEN Reject
    ELSE Accept

isLootAction(tokens) ==
    IF hasCommaSpacingError(tokens) THEN Reject
    ELSE IF Len(tokens) < 4 THEN Reject
    ELSE IF tokens[1] # kw_Geralt \/ tokens[2] # kw_loots THEN Reject
    ELSE LootList(tokens, 2)

\* the index of the first "for" at or behind index 2, or -1
ForIndex(tokens) ==
    IF \E i \in 2..(Len(tokens) - 1) : tokens[i + 1] = kw_for
    THEN CHOOSE i \in 2..(Len(tokens) - 1) :
            /\ tokens[i + 1] = kw_for
            /\ \A j \in 2..(i - 1) : tokens[j + 1] # kw_for
    ELSE -1

\* the while loop of isTradeAction over the ingredient list behind "for"
RECURSIVE TradeIngredientList(_, _, _)
TradeIngredientList(tokens, i, expectingQuantity) ==
    IF i >= Len(tokens)
    THEN IF expectingQuantity THEN Reject ELSE Accept
    ELSE IF expectingQuantity
    THEN IF isPositiveInteger(tokens[i + 1]) # Accept
         THEN isPositiveInteger(tokens[i + 1])
         ELSE IF i + 1 = Len(tokens) THEN Reject
         ELSE TradeIngredientList(tokens, i + 1, FALSE)
    ELSE IF ~isAlphabeticOnly(tokens[i + 1]) THEN Reject
    ELSE IF i + 1 = Len(tokens) THEN Accept
    ELSE IF tokens[i + 2] = kw_comma
    THEN IF i + 2 = Len(tokens) THEN Reject
         ELSE TradeIngredientList(tokens, i + 2, TRUE)
    ELSE Reject

\* the while loop of isTradeAction over the trophy list before "for"
RECURSIVE TradeTrophyList(_, _, _, _, _)
TradeTrophyList(tokens, i, expectingQuantity, lastTrophyHasKeyword, forIndex) ==
    IF i >= forIndex
    THEN IF ~lastTrophyHasKeyword THEN Reject
         ELSE TradeIngredientList(tokens, forIndex + 1, TRUE)
    ELSE IF expectingQuantity
    THEN IF isPositiveInteger(tokens[i + 1]) # Accept
         THEN isPositiveInteger(tokens[i + 1])
         ELSE TradeTrophyList(tokens, i + 1, FALSE, lastTrophyHasKeyword, forIndex)
    ELSE IF ~isAlphabeticOnly(tokens[i + 1]) THEN Reject
    ELSE IF i + 1 < forIndex /\ tokens[i + 2] = kw_trophy /\ i + 2 = forIndex
    THEN TradeTrophyList(tokens, i + 2, expectingQuantity, TRUE, forIndex)
    ELSE IF i + 1 < forIndex /\ tokens[i + 2] = kw_comma
    THEN TradeTrophyList(tokens, i + 2, TRUE, lastTrophyHasKeyword, forIndex)
    ELSE Reject

isTradeAction(tokens) ==
    IF hasCommaSpacingError(tokens) THEN Reject
    ELSE IF Len(tokens) < 2 \/ tokens[1] # kw_Geralt \/ tokens[2] # kw_trades
    THEN Reject
    ELSE IF ForIndex(tokens) = -1 \/ ForIndex(tokens) <= 4
            \/ ForIndex(tokens) >= Len(tokens) - 2
    THEN Reject
    ELSE TradeTrophyList(tokens, 2, TRUE, FALSE, ForIndex(tokens))

isBrewAction_AnyVerb(tokens) ==
    IF Len(tokens) < 3 THEN Reject
    ELSE IF tokens[1] # kw_Geralt THEN Reject
    ELSE IF LettersAndSingleSpaces(tokens[3]) THEN Accept
    ELSE Reject

isBrewAction(tokens) ==
    IF Len(tokens) < 3 THEN Reject
    ELSE IF tokens[1] # kw_Geralt \/ tokens[2] # kw_brews THEN Reject
    ELSE IF LettersAndSingleSpaces(tokens[3]) THEN Accept
    ELSE Reject

\* tokens[5] and tokens[6] are read once tokens[4] is "is", whatever the size
\* of the vector of at least 5 tokens: a read behind its end is OutOfBounds.
isEffectivenessKnowledge(tokens) ==
    IF Len(tokens) < 5 \/ tokens[1] # kw_Geralt \/ tokens[2] # kw_learns
    THEN Reject
    ELSE IF ~(tokens[4] = kw_potion \/ tokens[4] = kw_sign) THEN Reject
    ELSE IF tokens[5] # kw_is THEN Reject
    ELSE IF Len(tokens) < 6 THEN OutOfBounds
    ELSE IF tokens[6] # kw_effective THEN Reject
    ELSE IF Len(tokens) < 7 THEN OutOfBounds
    ELSE IF tokens[7] # kw_against THEN Reject
    ELSE IF Len(tokens) # 8 \/ ~isAlphabeticOnly(tokens[8]) THEN Reject
    ELSE IF tokens[4] = kw_sign
    THEN IF isAlphabeticOnly(tokens[3]) THEN Accept ELSE Reject
    ELSE IF isValidPotionNameToken(tokens[3]) THEN Accept ELSE Reject

\* the index of the first token equal to word at or behind index 2, or -1
FirstIndex(tokens, word) ==
    IF \E i \in 2..(Len(tokens) - 1) : tokens[i + 1] = word
    THEN CHOOSE i \in 2..(Len(tokens) - 1) :
            /\ tokens[i + 1] = word
            /\ \A j \in 2..(i - 1) : tokens[j + 1] # word
    ELSE -1

\* the while loop of isPotionFormulaKnowledge
RECURSIVE FormulaList(_, _)
FormulaList(tokens, i) ==
    IF i >= Len(tokens) THEN Accept
    ELSE IF isPositiveInteger(tokens[i + 1]) # Accept
    THEN isPositiveInteger(tokens[i + 1])
    ELSE IF i + 1 >= Len(tokens) \/ ~isAlphabeticOnly(tokens[i + 2]) THEN Reject
    ELSE IF i + 2 < Len(tokens)
    THEN IF tokens[i + 3] = kw_comma
         THEN IF i + 3 = Len(tokens) THEN Reject
              ELSE FormulaList(tokens, i + 3)
         ELSE IF Len(tokens) - (i + 2) >= 1 THEN Reject
              ELSE FormulaList(tokens, i + 2)
    ELSE FormulaList(tokens, i + 2)

isPotionFormulaKnowledge(tokens) ==
    LET potionIndex == FirstIndex(tokens, kw_potion)
        consistsIndex == FirstIndex(tokens, kw_consists)
        ofIndex == FirstIndex(tokens, kw_of)
    IN  IF Len(tokens) < 7 THEN Reject
        ELSE IF hasCommaSpacingError(tokens) THEN Reject
        ELSE IF tokens[Len(tokens)] = kw_comma THEN Reject
        ELSE IF tokens[1] # kw_Geralt \/ tokens[2] # kw_learns THEN Reject
        ELSE IF potionIndex = -1 \/ consistsIndex = -1 \/ ofIndex = -1
        THEN Reject
        ELSE IF ~(1 < potionIndex /\ potionIndex < consistsIndex
                  /\ consistsIndex < ofIndex)
        THEN Reject
        ELSE IF \E i \in 2..(potionIndex - 1) :
                    ~isValidPotionNameToken(tokens[i + 1])
        THEN Reject
        ELSE IF ~(potionIndex + 1 = consistsIndex /\ consistsIndex + 1 = ofIndex)
        THEN Reject
        ELSE FormulaList(tokens, ofIndex + 1)

isEncounterSentence(tokens) ==
    IF Len(tokens) # 4 THEN Reject
    ELSE IF tokens[1] # kw_Geralt \/ tokens[2] # kw_encounters \/ tokens[3] # kw_a
    THEN Reject
    ELSE IF ~isAlphabeticOnly(tokens[4]) THEN Reject
    ELSE Accept

\* the out-parameter isSpecific of isInventoryQuery
isSpecific(tokens) == Len(tokens) = 4

\* isInventoryQuery without its checks of the name
isInventoryQuery_NoNameCheck(tokens) ==
    IF Len(tokens) < 3 \/ Len(tokens) > 4 THEN Reject
    ELSE IF tokens[Len(tokens)] # kw_question THEN Reject
    ELSE IF tokens[1] # kw_Total THEN Reject
    ELSE IF tokens[2] # kw_ingredient /\ tokens[2] # kw_potion
            /\ tokens[2] # kw_trophy
    THEN Reject
    ELSE Accept

isInventoryQuery(tokens) ==
    IF Len(tokens) < 3 \/ Len(tokens) > 4 THEN Reject
    ELSE IF tokens[Len(tokens)] # kw_question THEN Reject
    ELSE IF tokens[1] # kw_Total THEN Reject
    ELSE IF tokens[2] # kw_ingredient /\ tokens[2] # kw_potion
            /\ tokens[2] # kw_trophy
    THEN Reject
    ELSE IF isSpecific(tokens)
            /\ (tokens[2] = kw_ingredient \/ tokens[2] = kw_trophy)
            /\ ~isAlphabeticOnly(tokens[3])
    THEN Reject
    ELSE IF isSpecific(tokens) /\ tokens[2] = kw_potion
            /\ ~isValidPotionNameToken(tokens[3])
    THEN Reject
    ELSE Accept

isBestiaryQuery(tokens) ==
    IF Len(tokens) # 6 THEN Reject
    ELSE IF tokens[1] # kw_What \/ tokens[2] # kw_is
            \/ tokens[3] # kw_effective \/ tokens[4] # kw_against
    THEN Reject
    ELSE IF ~isAlphabeticOnly(tokens[5]) THEN Reject
    ELSE IF tokens[6] # kw_question THEN Reject
    ELSE Accept

\* isAlchemyQuery without its loop over the tokens of the name
isAlchemyQuery_NoNameCheck(tokens) ==
    IF Len(tokens) < 5 THEN Reject
    ELSE IF tokens[1] # kw_What \/ tokens[2] # kw_is \/ tokens[3] # kw_in
    THEN Reject
    ELSE IF tokens[Len(tokens)] # kw_question THEN Reject
    ELSE Accept

isAlchemyQuery(tokens) ==
    IF Len(tokens) < 5 THEN Reject
    ELSE IF tokens[1] # kw_What \/ tokens[2] # kw_is \/ tokens[3] # kw_in
    THEN Reject
    ELSE IF tokens[Len(tokens)] # kw_question THEN Reject
    ELSE IF \E i \in 3..(Len(tokens) - 2) : ~isValidPotionNameToken(tokens[i + 1])
    THEN Reject
    ELSE Accept

isExitCommand(input) == IF input = kw_Exit THEN Accept ELSE Reject

(***************************************************************************)
(* CommandParser::isValidCommand.  The checkers are tried in the order of  *)
(* the source and the first that does not return false decides.  A checker *)
(* that read behind the end of the token vector has undefined behaviour:   *)
(* the build either goes on as if the comparison had failed (the function  *)
(* returns false at its size check at the latest) or the process dies; ub  *)
(* is the one of the two that happens.                                     *)
(***************************************************************************)
Crash == "crash"

UBOutcomes == {Reject, Crash}

\* what isValidCommand hands back: it returned (with its bool and cmdType),
\* or it never returned (an uncaught exception, a dead process)
Returned(type) ==
    [returned |-> TRUE, valid |-> type # "INVALID_COMMAND", cmdType |-> type]

NotReturned(how) == [returned |-> FALSE, valid |-> FALSE, cmdType |-> how]

Decide(verdict, type) ==
    IF verdict = Accept THEN Returned(type) ELSE NotReturned(verdict)

\* the chain of tries on the tokens of the input
FirstAccepting(input, tokens, ub) ==
    LET effectiveness == IF isEffectivenessKnowledge(tokens) = OutOfBounds
                         THEN ub
                         ELSE isEffectivenessKnowledge(tokens)
    IN  IF isLootAction(tokens) # Reject
        THEN Decide(isLootAction(tokens), "ACTION_LOOT")
        ELSE IF isTradeAction(tokens) # Reject
        THEN Decide(isTradeAction(tokens), "ACTION_TRADE")
        ELSE IF isBrewAction(tokens) # Reject
        THEN Decide(isBrewAction(tokens), "ACTION_BREW")
        ELSE IF effectiveness # Reject
        THEN Decide(effectiveness, "KNOWLEDGE_EFFECTIVENESS")
        ELSE IF isPotionFormulaKnowledge(tokens) # Reject
        THEN Decide(isPotionFormulaKnowledge(tokens), "KNOWLEDGE_POTION_FORMULA")
        ELSE IF isEncounterSentence(tokens) # Reject
        THEN Decide(isEncounterSentence(tokens), "ENCOUNTER")
        ELSE IF isInventoryQuery(tokens) # Reject
        THEN Decide(isInventoryQuery(tokens),
                    IF isSpecific(tokens) THEN "QUERY_SPECIFIC_INVENTORY"
                                          ELSE "QUERY_ALL_INVENTORY")
        ELSE IF isBestiaryQuery(tokens) # Reject
        THEN Decide(isBestiaryQuery(tokens), "QUERY_BESTIARY")
        ELSE IF isAlchemyQuery(tokens) # Reject
        THEN Decide(isAlchemyQuery(tokens), "QUERY_ALCHEMY")
        ELSE IF isExitCommand(input) # Reject
        THEN Decide(isExitCommand(input), "EXIT_COMMAND")
        ELSE Returned("INVALID_COMMAND")

isValidCommand(input, ub) == FirstAccepting(input, tokenizeInput(input), ub)

(***************************************************************************)
(* std::map<std::string, T> as a function on the keys present.             *)
(***************************************************************************)
EmptyMap == <<>>

HasKey(m, k) == k \in DOMAIN m

MapPut(m, k, v) == [x \in (DOMAIN m) \cup {k} |-> IF x = k THEN v ELSE m[x]]

\* it->second where the key is found, 0 otherwise; also the value m[k] of
\* operator[], which inserts a zero for a key that is not there
Quantity(m, k) == IF HasKey(m, k) THEN m[k] ELSE 0

(***************************************************************************)
(* Inventory                                                               *)
(***************************************************************************)
addIngredient_Assigns(inv, name, quantity) ==
    [inv EXCEPT !.ingredients = MapPut(@, name, quantity)]

\* a += b of two int, b above 0: the sum, and behind INT_MAX (signed
\* overflow) the sum less 2^32 that the addition of the machine leaves
IntAdd(a, b) ==
    IF a > INT_MAX - b THEN (a - INT_MAX - 1) + (b - INT_MAX - 1)
    ELSE a + b

addIngredient(inv, name, quantity) ==
    [inv EXCEPT !.ingredients = MapPut(@, name, IntAdd(Quantity(@, name), quantity))]

addPotion(inv, name, quantity) ==
    [inv EXCEPT !.potions = MapPut(@, name, IntAdd(Quantity(@, name), quantity))]

addTrophy(inv, name, quantity) ==
    [inv EXCEPT !.trophies = MapPut(@, name, IntAdd(Quantity(@, name), quantity))]

removeIngredient(inv, name, quantity) ==
    [inv EXCEPT !.ingredients =
        IF Quantity(@, name) >= quantity
        THEN MapPut(@, name, Quantity(@, name) - quantity)
        ELSE MapPut(@, name, Quantity(@, name))]

removePotion(inv, name, quantity) ==
    [inv EXCEPT !.potions =
        IF Quantity(@, name) >= quantity
        THEN MapPut(@, name, Quantity(@, name) - quantity)
        ELSE MapPut(@, name, Quantity(@, name))]

removeTrophy(inv, name, quantity) ==
    [inv EXCEPT !.trophies =
        IF Quantity(@, name) >= quantity
        THEN MapPut(@, name, Quantity(@, name) - quantity)
        ELSE MapPut(@, name, Quantity(@, name))]

getIngredientQuantity(inv, name) == Quantity(inv.ingredients, name)

getPotionQuantity(inv, name) == Quantity(inv.potions, name)

getTrophyQuantity(inv, name) == Quantity(inv.trophies, name)

(***************************************************************************)
(* Strings: order, to_string, joining.                                     *)
(***************************************************************************)
\* the characters of the model in the order of their codes
AsciiOrder ==
    <<"\t", "\n", "\f", "\r", " ", ",",
      "0", "1", "2", "3", "4", "5", "6", "7", "8", "9", "?",
      "A", "B", "C", "D", "E", "F", "G", "H", "I", "J", "K", "L", "M",
      "N", "O", "P", "Q", "R", "S", "T", "U", "V", "W", "X", "Y", "Z",
      "a", "b", "c", "d", "e", "f", "g", "h", "i", "j", "k", "l", "m",
      "n", "o", "p", "q", "r", "s", "t", "u", "v", "w", "x", "y", "z">>

CharOrder(c) == CHOOSE k \in 1..Len(AsciiOrder) : AsciiOrder[k] = c

\* a < b for two std::string
RECURSIVE StringLess(_, _)
StringLess(a, b) ==
    IF b = <<>> THEN FALSE
    ELSE IF a = <<>> THEN TRUE
    ELSE IF a[1] # b[1] THEN CharOrder(a[1]) < CharOrder(b[1])
    ELSE StringLess(Tail(a), Tail(b))

\* std::to_string of an int that is not negative
RECURSIVE to_string(_)
to_string(n) ==
    IF n < 10 THEN <<Digits[n + 1]>>
    ELSE Append(to_string(n \div 10), Digits[(n % 10) + 1])

\* tokens[from], ..., tokens[to - 1] (0-based) with one space between them
RECURSIVE JoinTokens(_, _, _)
JoinTokens(tokens, from, to) ==
    IF from >= to THEN <<>>
    ELSE IF from + 1 >= to THEN tokens[from + 1]
    ELSE tokens[from + 1] \o <<" ">> \o JoinTokens(tokens, from + 1, to)

\* "<quantity> <name>", "<quantity> <name>", ... with ", " between the items
RECURSIVE FormatPairs(_)
FormatPairs(pairs) ==
    IF pairs = <<>> THEN <<>>
    ELSE LET item == to_string(pairs[1].second) \o <<" ">> \o pairs[1].first
         IN  IF Len(pairs) = 1 THEN item
             ELSE item \o <<",", " ">> \o FormatPairs(Tail(pairs))

\* the names with ", " between them
RECURSIVE FormatNames(_)
FormatNames(names) ==
    IF names = <<>> THEN <<>>
    ELSE IF Len(names) = 1 THEN names[1]
    ELSE names[1] \o <<",", " ">> \o FormatNames(Tail(names))

\* the keys of a map in ascending order, as std::map iterates
RECURSIVE KeysInOrder(_)
KeysInOrder(keys) ==
    IF keys = {} THEN <<>>
    ELSE LET least == CHOOSE k \in keys :
                        \A other \in keys \ {k} : StringLess(k, other)
         IN  <<least>> \o KeysInOrder(keys \ {least})

\* std::sort of strings
RECURSIVE SortStrings(_)
SortStrings(names) ==
    IF names = <<>> THEN <<>>
    ELSE LET least == CHOOSE k \in 1..Len(names) :
                        \A j \in 1..Len(names) : ~StringLess(names[j], names[k])
         IN  <<names[least]>> \o
             SortStrings(SubSeq(names, 1, least - 1) \o
                         SubSeq(names, least + 1, Len(names)))

\* PositivePairs that also takes the quantities that are 0
PositivePairs_WithZero(m) ==
    LET keys == KeysInOrder({k \in DOMAIN m : m[k] >= 0})
    IN  [k \in 1..Len(keys) |-> [first |-> keys[k], second |-> m[keys[k]]]]

\* the pairs (name, quantity) of a map with a quantity above 0, by name
PositivePairs(m) ==
    LET keys == KeysInOrder({k \in DOMAIN m : m[k] > 0})
    IN  [k \in 1..Len(keys) |-> [first |-> keys[k], second |-> m[keys[k]]]]

getAllIngredients(inv) == FormatPairs(PositivePairs(inv.ingredients))

getAllPotions(inv) == FormatPairs(PositivePairs(inv.potions))

getAllTrophies(inv) == FormatPairs(PositivePairs(inv.trophies))

(***************************************************************************)
(* AlchemyKnowledge, Potion, Sign                                          *)
(***************************************************************************)
Potion(n) ==
    [name |-> n, ingredientNames |-> <<>>, ingredientQuantities |-> <<>>,
     quantity |-> 0]

Sign(n) == [name |-> n]

hasFormula(potion) == potion.ingredientNames # <<>>

addPotionFormula(alch, potionName, ingredients, quantities) ==
    LET potion == IF HasKey(alch.potions, potionName)
                  THEN alch.potions[potionName]
                  ELSE Potion(<<>>)
    IN  [alch EXCEPT !.potions =
            MapPut(@, potionName,
                   [potion EXCEPT !.name = potionName,
                                  !.ingredientNames = ingredients,
                                  !.ingredientQuantities = quantities])]

addSign(alch, signName) ==
    [alch EXCEPT !.signs = MapPut(@, signName, Sign(signName))]

hasPotion(alch, name) == HasKey(alch.potions, name)

\* std::sort with the comparator of getPotionIngredients: the larger
\* quantity first, the smaller name first among equal quantities
IngredientBefore(a, b) ==
    IF a.second # b.second THEN a.second > b.second
    ELSE StringLess(a.first, b.first)

RECURSIVE SortIngredientPairs(_)
SortIngredientPairs(pairs) ==
    IF pairs = <<>> THEN <<>>
    ELSE LET first == CHOOSE k \in 1..Len(pairs) :
                        \A j \in 1..Len(pairs) : ~IngredientBefore(pairs[j], pairs[k])
         IN  <<pairs[first]>> \o
             SortIngredientPairs(SubSeq(pairs, 1, first - 1) \o
                                 SubSeq(pairs, first + 1, Len(pairs)))

getPotionIngredients(alch, potionName) ==
    IF ~HasKey(alch.potions, potionName) \/ ~hasFormula(alch.potions[potionName])
    THEN <<>>
    ELSE LET potion == alch.potions[potionName]
             ingredientPairs ==
                 [k \in 1..Len(potion.ingredientNames) |->
                     [first |-> potion.ingredientNames[k],
                      second |-> potion.ingredientQuantities[k]]]
         IN  FormatPairs(SortIngredientPairs(ingredientPairs))

(***************************************************************************)
(* Bestiary, Beast                                                         *)
(***************************************************************************)
Beast(n) == [name |-> n, effectiveSigns |-> <<>>, effectivePotions |-> <<>>]

Contains(list, x) == \E k \in 1..Len(list) : list[k] = x

addEffectiveSign(beast, signName) ==
    IF Contains(beast.effectiveSigns, signName) THEN beast
    ELSE [beast EXCEPT !.effectiveSigns = Append(@, signName)]

addEffectivePotion(beast, potionName) ==
    IF Contains(beast.effectivePotions, potionName) THEN beast
    ELSE [beast EXCEPT !.effectivePotions = Append(@, potionName)]

addBeast(best, name) ==
    IF HasKey(best.beasts, name) THEN best
    ELSE [best EXCEPT !.beasts = MapPut(@, name, Beast(name))]

addEffectiveness(best, beastName, counter, isSign) ==
    LET withBeast == addBeast(best, beastName)
    IN  [withBeast EXCEPT !.beasts[beastName] =
            IF isSign THEN addEffectiveSign(@, counter)
                      ELSE addEffectivePotion(@, counter)]

getEffectiveCounters(best, beastName) ==
    IF ~HasKey(best.beasts, beastName) THEN <<>>
    ELSE FormatNames(SortStrings(best.beasts[beastName].effectivePotions \o
                                 best.beasts[beastName].effectiveSigns))

(***************************************************************************)
(* WitcherTracker: the handlers.  w is the tracker before the command,     *)
(* [inventory, alchemy, bestiary]; a handler gives the tracker after it,   *)
(* what it wrote to cout and what it returned.  Every handler begins with  *)
(* tokens = tokenizeInput(input); it is handed these tokens here.          *)
(***************************************************************************)
Says(text, arg) == <<[text |-> text, arg |-> arg]>>

Done(inv, alch, best, printed) ==
    [inventory |-> inv, alchemy |-> alch, bestiary |-> best,
     out |-> printed, result |-> 0]

\* the loop "quantity, name, skip a comma" from tokenIndex to the end of the
\* tokens: the pairs (name, quantity) in the order read
RECURSIVE QuantityNamePairs(_, _)
QuantityNamePairs(tokens, tokenIndex) ==
    IF tokenIndex >= Len(tokens) THEN <<>>
    ELSE LET quantity == stoi(tokens[tokenIndex + 1])
             name == tokens[tokenIndex + 2]
             next == IF tokenIndex + 2 < Len(tokens)
                        /\ tokens[tokenIndex + 3] = kw_comma
                     THEN tokenIndex + 3 ELSE tokenIndex + 2
         IN  <<[first |-> name, second |-> quantity]>> \o
             QuantityNamePairs(tokens, next)

\* the loop of executeTradeAction before "for", which also skips "trophy"
RECURSIVE RequiredTrophies(_, _, _)
RequiredTrophies(tokens, tokenIndex, forIndex) ==
    IF tokenIndex >= forIndex THEN <<>>
    ELSE LET quantity == stoi(tokens[tokenIndex + 1])
             trophyName == tokens[tokenIndex + 2]
             afterName == tokenIndex + 2
             afterTrophy == IF afterName < forIndex
                               /\ tokens[afterName + 1] = kw_trophy
                            THEN afterName + 1 ELSE afterName
             afterComma == IF afterTrophy < forIndex
                              /\ tokens[afterTrophy + 1] = kw_comma
                           THEN afterTrophy + 1 ELSE afterTrophy
         IN  <<[first |-> trophyName, second |-> quantity]>> \o
             RequiredTrophies(tokens, afterComma, forIndex)

RECURSIVE AddIngredients(_, _)
AddIngredients(inv, pairs) ==
    IF pairs = <<>> THEN inv
    ELSE AddIngredients(addIngredient(inv, pairs[1].first, pairs[1].second),
                        Tail(pairs))

RECURSIVE RemoveIngredients(_, _)
RemoveIngredients(inv, pairs) ==
    IF pairs = <<>> THEN inv
    ELSE RemoveIngredients(removeIngredient(inv, pairs[1].first, pairs[1].second),
                           Tail(pairs))

RECURSIVE RemoveTrophies(_, _)
RemoveTrophies(inv, pairs) ==
    IF pairs = <<>> THEN inv
    ELSE RemoveTrophies(removeTrophy(inv, pairs[1].first, pairs[1].second),
                        Tail(pairs))

executeLootAction(tokens, w) ==
    Done(AddIngredients(w.inventory, QuantityNamePairs(tokens, 2)),
         w.alchemy, w.bestiary, Says("Alchemy ingredients obtained", <<>>))

\* executeTradeAction that hands out the ingredients of a refused trade
executeTradeAction_GivesAnyway(tokens, w) ==
    LET forIndex == IF \E i \in 2..(Len(tokens) - 1) : tokens[i + 1] = kw_for
                    THEN FirstIndex(tokens, kw_for) ELSE 0
        requiredTrophies == RequiredTrophies(tokens, 2, forIndex)
        gainedIngredients == QuantityNamePairs(tokens, forIndex + 1)
        hasEnoughTrophies ==
            \A k \in 1..Len(requiredTrophies) :
                getTrophyQuantity(w.inventory, requiredTrophies[k].first)
                    >= requiredTrophies[k].second
    IN  IF ~hasEnoughTrophies
        THEN Done(AddIngredients(w.inventory, gainedIngredients),
                  w.alchemy, w.bestiary, Says("Not enough trophies", <<>>))
        ELSE Done(AddIngredients(RemoveTrophies(w.inventory, requiredTrophies),
                                    gainedIngredients),
                  w.alchemy, w.bestiary, Says("Trade successful", <<>>))

executeTradeAction(tokens, w) ==
    LET forIndex == IF \E i \in 2..(Len(tokens) - 1) : tokens[i + 1] = kw_for
                    THEN FirstIndex(tokens, kw_for) ELSE 0
        requiredTrophies == RequiredTrophies(tokens, 2, forIndex)
        gainedIngredients == QuantityNamePairs(tokens, forIndex + 1)
        hasEnoughTrophies ==
            \A k \in 1..Len(requiredTrophies) :
                getTrophyQuantity(w.inventory, requiredTrophies[k].first)
                    >= requiredTrophies[k].second
    IN  IF ~hasEnoughTrophies
        THEN Done(w.inventory, w.alchemy, w.bestiary,
                  Says("Not enough trophies", <<>>))
        ELSE Done(AddIngredients(RemoveTrophies(w.inventory, requiredTrophies),
                                    gainedIngredients),
                  w.alchemy, w.bestiary, Says("Trade successful", <<>>))

\* executeBrewAction that brews without a formula, from nothing
executeBrewAction_NoFormulaNeeded(tokens, w) ==
    LET potionName == JoinTokens(tokens, 2, Len(tokens))
    IN  Done(addPotion(w.inventory, potionName, 1), w.alchemy, w.bestiary,
             Says("Alchemy item created: ", potionName))

executeBrewAction(tokens, w) ==
    LET potionName == JoinTokens(tokens, 2, Len(tokens))
    IN  IF ~HasKey(w.alchemy.potions, potionName)
           \/ ~hasFormula(w.alchemy.potions[potionName])
        THEN Done(w.inventory, w.alchemy, w.bestiary,
                  Says("No formula for ", potionName))
        ELSE LET potion == w.alchemy.potions[potionName]
                 formula == [k \in 1..Len(potion.ingredientNames) |->
                                [first |-> potion.ingredientNames[k],
                                 second |-> potion.ingredientQuantities[k]]]
                 hasEnoughIngredients ==
                     \A k \in 1..Len(formula) :
                         getIngredientQuantity(w.inventory, formula[k].first)
                             >= formula[k].second
             IN  IF ~hasEnoughIngredients
                 THEN Done(w.inventory, w.alchemy, w.bestiary,
                           Says("Not enough ingredients", <<>>))
                 ELSE Done(addPotion(RemoveIngredients(w.inventory, formula),
                                        potionName, 1),
                           w.alchemy, w.bestiary,
                           Says("Alchemy item created: ", potionName))

\* the scan of executeEffectivenessKnowledge from token i: the last "is"
\* before the first "against", the first "against" (where the scan stops),
\* and whether a "sign" was passed
RECURSIVE EffectivenessScan(_, _, _, _)
EffectivenessScan(tokens, i, isIndex, isSign) ==
    IF i >= Len(tokens)
    THEN [isIndex |-> isIndex, againstIndex |-> 0, isSign |-> isSign]
    ELSE IF tokens[i + 1] = kw_is
    THEN EffectivenessScan(tokens, i + 1, i, isSign)
    ELSE IF tokens[i + 1] = kw_against
    THEN [isIndex |-> isIndex, againstIndex |-> i, isSign |-> isSign]
    ELSE IF tokens[i + 1] = kw_sign
    THEN EffectivenessScan(tokens, i + 1, isIndex, TRUE)
    ELSE EffectivenessScan(tokens, i + 1, isIndex, isSign)

\* the tokens from i up to isIndex that are neither "sign" nor "potion",
\* each appended to counterName after a space unless counterName is empty
RECURSIVE CounterName(_, _, _, _)
CounterName(tokens, i, isIndex, counterName) ==
    IF i >= isIndex THEN counterName
    ELSE IF tokens[i + 1] # kw_sign /\ tokens[i + 1] # kw_potion
    THEN CounterName(tokens, i + 1, isIndex,
                     (IF counterName # <<>> THEN counterName \o <<" ">>
                                            ELSE counterName) \o tokens[i + 1])
    ELSE CounterName(tokens, i + 1, isIndex, counterName)

executeEffectivenessKnowledge(tokens, w) ==
    LET scan == EffectivenessScan(tokens, 2, 0, FALSE)
        isSign == scan.isSign
        counterName == CounterName(tokens, 2, scan.isIndex, <<>>)
        monsterName == JoinTokens(tokens, scan.againstIndex + 1, Len(tokens))
        beastExists == HasKey(w.bestiary.beasts, monsterName)
        alreadyKnown ==
            /\ beastExists
            /\ IF isSign
               THEN Contains(w.bestiary.beasts[monsterName].effectiveSigns, counterName)
               ELSE Contains(w.bestiary.beasts[monsterName].effectivePotions, counterName)
    IN  IF alreadyKnown
        THEN Done(w.inventory, w.alchemy, w.bestiary,
                  Says("Already known effectiveness", <<>>))
        ELSE Done(w.inventory,
                  IF isSign THEN addSign(w.alchemy, counterName) ELSE w.alchemy,
                  addEffectiveness(w.bestiary, monsterName, counterName, isSign),
                  IF beastExists
                  THEN Says("Bestiary entry updated: ", monsterName)
                  ELSE Says("New bestiary entry added: ", monsterName))

\* the scan of executeFormulaKnowledge from token i: the last "potion"
\* before the first "of", and the first "of"
RECURSIVE FormulaScan(_, _, _)
FormulaScan(tokens, i, potionIndex) ==
    IF i >= Len(tokens) THEN [potionIndex |-> potionIndex, ofIndex |-> 0]
    ELSE IF tokens[i + 1] = kw_potion THEN FormulaScan(tokens, i + 1, i)
    ELSE IF tokens[i + 1] = kw_of THEN [potionIndex |-> potionIndex, ofIndex |-> i]
    ELSE FormulaScan(tokens, i + 1, potionIndex)

\* executeFormulaKnowledge without the test for a formula already known
executeFormulaKnowledge_Overwrites(tokens, w) ==
    LET scan == FormulaScan(tokens, 2, 0)
        potionName == JoinTokens(tokens, 2, scan.potionIndex)
        pairs == QuantityNamePairs(tokens, scan.ofIndex + 1)
        ingredients == [k \in 1..Len(pairs) |-> pairs[k].first]
        quantities == [k \in 1..Len(pairs) |-> pairs[k].second]
    IN  Done(w.inventory,
             addPotionFormula(w.alchemy, potionName, ingredients, quantities),
             w.bestiary,
             Says("New alchemy formula obtained: ", potionName))

executeFormulaKnowledge(tokens, w) ==
    LET scan == FormulaScan(tokens, 2, 0)
        potionName == JoinTokens(tokens, 2, scan.potionIndex)
        pairs == QuantityNamePairs(tokens, scan.ofIndex + 1)
        ingredients == [k \in 1..Len(pairs) |-> pairs[k].first]
        quantities == [k \in 1..Len(pairs) |-> pairs[k].second]
    IN  IF hasPotion(w.alchemy, potionName)
        THEN Done(w.inventory, w.alchemy, w.bestiary,
                  Says("Already known formula", <<>>))
        ELSE Done(w.inventory,
                  addPotionFormula(w.alchemy, potionName, ingredients, quantities),
                  w.bestiary,
                  Says("New alchemy formula obtained: ", potionName))

\* ConsumePotions that uses up no potion
ConsumePotions_None(inv, effectivePotions) == inv

\* one of each effective potion that is in the inventory
RECURSIVE ConsumePotions(_, _)
ConsumePotions(inv, effectivePotions) ==
    IF effectivePotions = <<>> THEN inv
    ELSE ConsumePotions(IF getPotionQuantity(inv, effectivePotions[1]) > 0
                        THEN removePotion(inv, effectivePotions[1], 1)
                        ELSE inv,
                        Tail(effectivePotions))

hasEffectiveCounter_PotionsOnly(inv, beast) ==
    \E k \in 1..Len(beast.effectivePotions) :
        getPotionQuantity(inv, beast.effectivePotions[k]) > 0

\* an effective potion is in the inventory, or a sign is known to work
hasEffectiveCounter(inv, beast) ==
    \/ \E k \in 1..Len(beast.effectivePotions) :
           getPotionQuantity(inv, beast.effectivePotions[k]) > 0
    \/ beast.effectiveSigns # <<>>

executeEncounter_AlwaysWins(tokens, w) ==
    LET monsterName == JoinTokens(tokens, 3, Len(tokens))
    IN  Done(addTrophy(w.inventory, monsterName, 1), w.alchemy, w.bestiary,
             Says("Geralt defeats ", monsterName))

executeEncounter(tokens, w) ==
    LET monsterName == JoinTokens(tokens, 3, Len(tokens))
        unprepared ==
            Says("Geralt is unprepared and barely escapes with his life", <<>>)
    IN  IF ~HasKey(w.bestiary.beasts, monsterName)
        THEN Done(w.inventory, w.alchemy, w.bestiary, unprepared)
        ELSE LET beast == w.bestiary.beasts[monsterName]
             IN  IF hasEffectiveCounter(w.inventory, beast)
                 THEN Done(addTrophy(ConsumePotions(w.inventory, beast.effectivePotions),
                                     monsterName, 1),
                           w.alchemy, w.bestiary,
                           Says("Geralt defeats ", monsterName))
                 ELSE Done(w.inventory, w.alchemy, w.bestiary, unprepared)

executeSpecificInventoryQuery(tokens, w) ==
    LET category == tokens[2]
        itemName == JoinTokens(tokens, 2, Len(tokens) - 1)
        quantity ==
            IF category = kw_ingredient THEN getIngredientQuantity(w.inventory, itemName)
            ELSE IF category = kw_potion THEN getPotionQuantity(w.inventory, itemName)
            ELSE IF category = kw_trophy THEN getTrophyQuantity(w.inventory, itemName)
            ELSE 0
    IN  Done(w.inventory, w.alchemy, w.bestiary, Says("", to_string(quantity)))

executeAllInventoryQuery(tokens, w) ==
    LET category == tokens[2]
        result ==
            IF category = kw_ingredient THEN getAllIngredients(w.inventory)
            ELSE IF category = kw_potion THEN getAllPotions(w.inventory)
            ELSE IF category = kw_trophy THEN getAllTrophies(w.inventory)
            ELSE <<>>
    IN  Done(w.inventory, w.alchemy, w.bestiary,
             IF result = <<>> THEN Says("None", <<>>) ELSE Says("", result))

executeBestiaryQuery(tokens, w) ==
    LET monsterName == JoinTokens(tokens, 4, Len(tokens) - 1)
        result == getEffectiveCounters(w.bestiary, monsterName)
    IN  Done(w.inventory, w.alchemy, w.bestiary,
             IF result = <<>> THEN Says("No knowledge of ", monsterName)
                              ELSE Says("", result))

executeAlchemyQuery(tokens, w) ==
    LET potionName == JoinTokens(tokens, 3, Len(tokens) - 1)
        result == getPotionIngredients(w.alchemy, potionName)
    IN  Done(w.inventory, w.alchemy, w.bestiary,
             IF result = <<>> THEN Says("No formula for ", potionName)
                              ELSE Says("", result))

executeCommand(tokens, cmdType, w) ==
    IF cmdType = "ACTION_LOOT" THEN executeLootAction(tokens, w)
    ELSE IF cmdType = "ACTION_TRADE" THEN executeTradeAction(tokens, w)
    ELSE IF cmdType = "ACTION_BREW" THEN executeBrewAction(tokens, w)
    ELSE IF cmdType = "KNOWLEDGE_EFFECTIVENESS"
    THEN executeEffectivenessKnowledge(tokens, w)
    ELSE IF cmdType = "KNOWLEDGE_POTION_FORMULA"
    THEN executeFormulaKnowledge(tokens, w)
    ELSE IF cmdType = "ENCOUNTER" THEN executeEncounter(tokens, w)
    ELSE IF cmdType = "QUERY_SPECIFIC_INVENTORY"
    THEN executeSpecificInventoryQuery(tokens, w)
    ELSE IF cmdType = "QUERY_ALL_INVENTORY"
    THEN executeAllInventoryQuery(tokens, w)
    ELSE IF cmdType = "QUERY_BESTIARY" THEN executeBestiaryQuery(tokens, w)
    ELSE IF cmdType = "QUERY_ALCHEMY" THEN executeAlchemyQuery(tokens, w)
    ELSE IF cmdType = "EXIT_COMMAND"
    THEN Done(w.inventory, w.alchemy, w.bestiary, <<>>)
    ELSE [Done(w.inventory, w.alchemy, w.bestiary, <<>>) EXCEPT !.result = -1]

Refused_ReturnsZero(w) == Done(w.inventory, w.alchemy, w.bestiary, <<>>)

\* return -1 of executeLine: nothing printed, nothing changed
Refused(w) ==
    [Done(w.inventory, w.alchemy, w.bestiary, <<>>) EXCEPT !.result = -1]

\* cmdType is declared after the return for an empty line
Unset == "unset"

(***************************************************************************)
(* The lines typed at the prompt, and the pieces lines are typed from.     *)
(***************************************************************************)
\* the words with one space between them
Sentence(words) == JoinTokens(words, 0, Len(words))

MaxCount == 2

MaxFrags == 3

\* 2147483648, the least quantity std::stoi cannot return
TooLarge == <<"2", "1", "4", "7", "4", "8", "3", "6", "4", "8">>

\* 2147483647, the largest quantity std::stoi returns
Largest == <<"2", "1", "4", "7", "4", "8", "3", "6", "4", "7">>

InputLines ==
    { Sentence(<<kw_Geralt, kw_loots, <<"1">>, <<"A">>>>),
      Sentence(<<kw_Geralt, kw_loots, <<"1">>, <<"A", ",">>, <<"1">>, <<"A">>>>),
      Sentence(<<kw_Geralt, kw_loots, <<"2">>, <<"B">>>>),
      Sentence(<<kw_Geralt, kw_learns, <<"P">>, kw_potion, kw_consists, kw_of,
                 <<"1">>, <<"A", ",">>, <<"1">>, <<"A">>>>),
      Sentence(<<kw_Geralt, kw_learns, <<"P">>, kw_potion, kw_consists, kw_of,
                 <<"2">>, <<"B">>>>),
      Sentence(<<kw_Geralt, kw_brews, <<"P">>>>),
      Sentence(<<kw_Geralt, kw_learns, <<"S">>, kw_sign, kw_is, kw_effective,
                 kw_against, <<"M">>>>),
      Sentence(<<kw_Geralt, kw_learns, <<"P">>, kw_potion, kw_is, kw_effective,
                 kw_against, <<"M">>>>),
      Sentence(<<kw_Geralt, kw_learns, <<"S">>, kw_potion, kw_is, kw_effective,
                 kw_against, <<"M">>>>),
      Sentence(<<kw_Geralt, kw_learns, kw_against, kw_sign, kw_is, kw_effective,
                 kw_against, <<"M">>>>),
      Sentence(<<kw_Geralt, kw_encounters, kw_a, <<"M">>>>),
      Sentence(<<kw_Geralt, kw_encounters, kw_a, <<"N">>>>),
      Sentence(<<kw_Geralt, kw_trades, <<"1">>, <<"M">>, kw_trophy, kw_for,
                 <<"1">>, <<"A">>>>),
      Sentence(<<kw_Geralt, kw_trades, <<"1">>, <<"M", ",">>, <<"1">>, <<"M">>,
                 kw_trophy, kw_for, <<"1">>, <<"B">>>>),
      Sentence(<<kw_Total, kw_ingredient, kw_question>>),
      Sentence(<<kw_Total, kw_potion, kw_question>>),
      Sentence(<<kw_Total, kw_trophy, kw_question>>),
      Sentence(<<kw_Total, kw_potion, <<"P">>, kw_question>>),
      Sentence(<<kw_What, kw_is, kw_effective, kw_against, <<"M">>, kw_question>>),
      Sentence(<<kw_What, kw_is, kw_in, <<"P">>, kw_question>>),
      <<>>,
      <<" ", " ">>,
      Sentence(<<kw_Geralt, kw_loots, <<"0">>, <<"A">>>>),
      Sentence(<<kw_Geralt, kw_loots, <<"1">>, <<"A", ",">>>>),
      <<" ">> \o kw_Exit,
      kw_Exit,
      Sentence(<<kw_Geralt, kw_loots, TooLarge, <<"A">>>>),
      Sentence(<<kw_Geralt, kw_learns, <<"S">>, kw_sign, kw_is>>) }

\* what executeLine and the handler it calls compute from the line alone:
\* the cleaned copy, the classification, and the tokens of the copy
ParseCleaned(inputCopy, ub) ==
    IF inputCopy = <<>>
    THEN [inputCopy |-> inputCopy, returned |-> TRUE, valid |-> FALSE,
          cmdType |-> Unset, tokens |-> <<>>]
    ELSE isValidCommand(inputCopy, ub)
             @@ [inputCopy |-> inputCopy, tokens |-> tokenizeInput(inputCopy)]

\* the same, from the line as it was read
Parse(ln, ub) == ParseCleaned(cleanInputLine(ln), ub)

\* the lines of the run at the edge of int
EdgeLines ==
    { Sentence(<<kw_Geralt, kw_loots, Largest, <<"A">>>>),
      Sentence(<<kw_Geralt, kw_loots, Largest, <<"B">>>>),
      Sentence(<<kw_Geralt, kw_loots, <<"1">>, <<"A">>>>),
      Sentence(<<kw_Geralt, kw_loots, <<"1">>, <<"B">>>>),
      Sentence(<<kw_Total, kw_ingredient, kw_question>>) }

\* Parse of the lines that are typed, computed once
ParseTable ==
    [ln \in InputLines \cup EdgeLines |-> [ub \in UBOutcomes |-> Parse(ln, ub)]]

Parsed(ln, ub) == ParseTable[ln][ub]

\* executeLine behind its cleaning and classification: refuse, or hand the
\* tokens to the handler of the type
ExecuteParsed(parse, w) ==
    IF parse.inputCopy = <<>>
    THEN [returned |-> TRUE, cmdType |-> Unset, after |-> Refused(w)]
    ELSE IF ~parse.returned
    THEN [returned |-> FALSE, cmdType |-> parse.cmdType, after |-> Refused(w)]
    ELSE IF parse.valid
    THEN [returned |-> TRUE, cmdType |-> parse.cmdType,
          after |-> executeCommand(parse.tokens, parse.cmdType, w)]
    ELSE [returned |-> TRUE, cmdType |-> parse.cmdType, after |-> Refused(w)]

executeLine(ln, w, ub) == ExecuteParsed(Parsed(ln, ub), w)

LootHead == Sentence(<<kw_Geralt, kw_loots>>)

FormulaHead ==
    Sentence(<<kw_Geralt, kw_learns, <<"X">>, kw_potion, kw_consists, kw_of>>)

Heads ==
    { <<>>, LootHead, FormulaHead,
      Sentence(<<kw_Geralt, kw_loots, <<"1">>, <<"A", ",">>>>),
      Sentence(<<kw_Geralt, kw_loots, TooLarge>>),
      Sentence(<<kw_Geralt, kw_trades, <<"1">>, <<"M">>>>),
      Sentence(<<kw_Geralt, kw_trades, <<"1">>, <<"M">>, kw_trophy, kw_for>>),
      Sentence(<<kw_Geralt, kw_brews>>),
      Sentence(<<kw_Geralt, kw_learns>>),
      Sentence(<<kw_Geralt, kw_learns, <<"X">>>>),
      Sentence(<<kw_Geralt, kw_learns, <<"X">>, kw_sign, kw_is, kw_effective,
                 kw_against>>),
      Sentence(<<kw_Geralt, kw_encounters>>),
      kw_Total,
      Sentence(<<kw_Total, kw_comma>>),
      Sentence(<<kw_Total, kw_ingredient>>),
      Sentence(<<kw_Total, kw_potion>>),
      kw_What,
      Sentence(<<kw_What, kw_Total>>),
      Sentence(<<kw_What, kw_is, kw_in>>),
      Sentence(<<kw_What, kw_is, kw_effective, kw_against>>),
      kw_Exit }

Fragments ==
    { <<" ", "1">>, <<" ", "0">>, <<" ">> \o TooLarge,
      <<" ", "A">>, <<"A">>, <<",">>, <<"?">>,
      <<" ">> \o kw_potion, <<" ">> \o kw_sign, <<" ">> \o kw_trophy,
      <<" ">> \o kw_for, <<" ">> \o kw_is, <<" ">> \o kw_a,
      <<" ">> \o kw_effective, <<" ">> \o kw_against }

Checkers ==
    { "isLootAction", "isTradeAction", "isBrewAction", "isEffectivenessKnowledge",
      "isPotionFormulaKnowledge", "isEncounterSentence", "isInventoryQuery",
      "isBestiaryQuery", "isAlchemyQuery", "isExitCommand" }

\* each shape-checker on its own on the cleaned line
Verdicts(input, tokens) ==
    [c \in Checkers |->
            CASE c = "isLootAction" -> isLootAction(tokens)
              [] c = "isTradeAction" -> isTradeAction(tokens)
              [] c = "isBrewAction" -> isBrewAction(tokens)
              [] c = "isEffectivenessKnowledge" -> isEffectivenessKnowledge(tokens)
              [] c = "isPotionFormulaKnowledge" -> isPotionFormulaKnowledge(tokens)
              [] c = "isEncounterSentence" -> isEncounterSentence(tokens)
              [] c = "isInventoryQuery" -> isInventoryQuery(tokens)
              [] c = "isBestiaryQuery" -> isBestiaryQuery(tokens)
              [] c = "isAlchemyQuery" -> isAlchemyQuery(tokens)
              [] c = "isExitCommand" -> isExitCommand(input)]

\* a list text behind the Loot words and behind the LearnFormula words: what
\* each checker says, and the pairs each handler reads from the tokens
\* isLootAction's verdict and the pairs executeLootAction reads
LootPairs(tokens) ==
    [verdict |-> isLootAction(tokens),
     pairs |-> IF isLootAction(tokens) = Accept
               THEN QuantityNamePairs(tokens, 2) ELSE <<>>]

ListAsLoot(text) == LootPairs(tokenizeInput(cleanInputLine(LootHead \o text)))

\* isPotionFormulaKnowledge's verdict and the pairs executeFormulaKnowledge
\* reads
FormulaPairs(tokens) ==
    [verdict |-> isPotionFormulaKnowledge(tokens),
     pairs |-> IF isPotionFormulaKnowledge(tokens) = Accept
               THEN QuantityNamePairs(tokens, FormulaScan(tokens, 2, 0).ofIndex + 1)
               ELSE <<>>]

ListAsFormula(text) ==
    FormulaPairs(tokenizeInput(cleanInputLine(FormulaHead \o text)))

(***************************************************************************)
(* State.  pc is the place in main (or in the parsing run); line is the    *)
(* string getline fills; result and cmdType are the locals of the loop     *)
(* body and of executeLine; out is what was written to cout since the      *)
(* last prompt; inventory, alchemy and bestiary are the members of the     *)
(* WitcherTracker.  head, list, verdicts and lists belong to the parsing   *)
(* run: the line under test is head \o list.  emitted is the tokens that   *)
(* tokenizeInput made of the line under test, retokens what it made of     *)
(* these tokens joined again, branches the leading-keyword branches whose  *)
(* tokens are in emitted; positive is what isPositiveInteger said of the   *)
(* token typed.                                                            *)
(***************************************************************************)
VARIABLES pc, line, result, cmdType, out, inventory, alchemy, bestiary,
          head, list, nfrags, verdicts, lists,
          emitted, retokens, branches, positive

vars == <<pc, line, result, cmdType, out, inventory, alchemy, bestiary,
          head, list, nfrags, verdicts, lists,
          emitted, retokens, branches, positive>>

registries == <<inventory, alchemy, bestiary>>

tokenizing == <<emitted, retokens, branches>>

parsing == <<head, list, nfrags, verdicts, lists, tokenizing, positive>>

Tracker == [inventory |-> inventory, alchemy |-> alchemy, bestiary |-> bestiary]

NoResult == "none"

NoVerdicts == [c \in Checkers |-> "none"]

NoLists == [loot |-> [verdict |-> "none", pairs |-> <<>>],
            formula |-> [verdict |-> "none", pairs |-> <<>>]]

\* nothing tokenized, no token judged
NoTokens ==
    /\ emitted = <<>>
    /\ retokens = <<>>
    /\ branches = {}
    /\ positive = "none"

\* the tracker as constructed: every map empty
InitTracker ==
    /\ inventory = [ingredients |-> EmptyMap, potions |-> EmptyMap,
                    trophies |-> EmptyMap]
    /\ alchemy = [potions |-> EmptyMap, signs |-> EmptyMap]
    /\ bestiary = [beasts |-> EmptyMap]

Init ==
    /\ pc = "loop"
    /\ line = <<>>
    /\ result = NoResult
    /\ cmdType = Unset
    /\ out = <<>>
    /\ InitTracker
    /\ head = <<>>
    /\ list = <<>>
    /\ nfrags = 0
    /\ verdicts = NoVerdicts
    /\ lists = NoLists
    /\ NoTokens

\* no count of the tracker above MaxCount
WithinBounds(after) ==
    /\ \A k \in DOMAIN after.inventory.ingredients :
           after.inventory.ingredients[k] <= MaxCount
    /\ \A k \in DOMAIN after.inventory.potions :
           after.inventory.potions[k] <= MaxCount
    /\ \A k \in DOMAIN after.inventory.trophies :
           after.inventory.trophies[k] <= MaxCount

(***************************************************************************)
(* main                                                                    *)
(***************************************************************************)
\* top of the loop: the prompt is written and getline starts on an erased
\* string; the locals of the last turn are gone
Prompt ==
    /\ pc = "loop"
    /\ pc' = "getline"
    /\ line' = <<>>
    /\ result' = NoResult
    /\ cmdType' = Unset
    /\ out' = <<>>
    /\ UNCHANGED <<registries, parsing>>

ReadLine ==
    /\ pc = "getline"
    /\ \E ln \in InputLines : line' = ln
    /\ pc' = "read"
    /\ UNCHANGED <<result, cmdType, out, registries, parsing>>

EndOfInput ==
    /\ pc = "getline"
    /\ pc' = "done"
    /\ UNCHANGED <<line, result, cmdType, out, registries, parsing>>

ExitBreak ==
    /\ pc = "read"
    /\ line = kw_Exit
    /\ pc' = "done"
    /\ UNCHANGED <<line, result, cmdType, out, registries, parsing>>

\* executeLine on the line read, classified as type, and the INVALID of main
Execute(type) ==
    /\ pc = "read"
    /\ line # kw_Exit
    /\ \E ub \in UBOutcomes :
          \E run \in {executeLine(line, Tracker, ub)} :
              /\ run.returned
              /\ run.cmdType = type
              /\ WithinBounds(run.after)
              /\ cmdType' = run.cmdType
              /\ result' = run.after.result
              /\ out' = run.after.out \o
                        (IF run.after.result = -1 THEN Says("INVALID", <<>>)
                                                  ELSE <<>>)
              /\ inventory' = run.after.inventory
              /\ alchemy' = run.after.alchemy
              /\ bestiary' = run.after.bestiary
    /\ pc' = "loop"
    /\ UNCHANGED <<line, parsing>>

EmptyLine == Execute(Unset)

InvalidLine == Execute("INVALID_COMMAND")

LootAction == Execute("ACTION_LOOT")

TradeAction == Execute("ACTION_TRADE")

BrewAction == Execute("ACTION_BREW")

EffectivenessKnowledge == Execute("KNOWLEDGE_EFFECTIVENESS")

FormulaKnowledge == Execute("KNOWLEDGE_POTION_FORMULA")

Encounter == Execute("ENCOUNTER")

SpecificInventoryQuery == Execute("QUERY_SPECIFIC_INVENTORY")

AllInventoryQuery == Execute("QUERY_ALL_INVENTORY")

BestiaryQuery == Execute("QUERY_BESTIARY")

AlchemyQuery == Execute("QUERY_ALCHEMY")

ExitCommand == Execute("EXIT_COMMAND")

\* executeLine does not return: the exception of std::stoi is caught
\* nowhere, or the read behind the tokens killed the process
Abort ==
    /\ pc = "read"
    /\ line # kw_Exit
    /\ \E ub \in UBOutcomes :
          \E run \in {executeLine(line, Tracker, ub)} :
              /\ ~run.returned
              /\ cmdType' = run.cmdType
    /\ pc' = "aborted"
    /\ UNCHANGED <<line, result, out, registries, parsing>>

Next ==
    \/ Prompt
    \/ ReadLine
    \/ EndOfInput
    \/ ExitBreak
    \/ EmptyLine
    \/ InvalidLine
    \/ LootAction
    \/ TradeAction
    \/ BrewAction
    \/ EffectivenessKnowledge
    \/ FormulaKnowledge
    \/ Encounter
    \/ SpecificInventoryQuery
    \/ AllInventoryQuery
    \/ BestiaryQuery
    \/ AlchemyQuery
    \/ ExitCommand
    \/ Abort

Spec == Init /\ [][Next]_vars

(***************************************************************************)
(* The parsing run: a line is typed piece by piece behind one of the       *)
(* heads, and then handed to the classifier, to each shape-checker on its  *)
(* own, or, as a list, to the Loot and the LearnFormula checkers.          *)
(***************************************************************************)
InitParse ==
    /\ pc = "typing"
    /\ head \in Heads
    /\ list = <<>>
    /\ nfrags = 0
    /\ line = <<>>
    /\ result = NoResult
    /\ cmdType = Unset
    /\ out = <<>>
    /\ InitTracker
    /\ verdicts = NoVerdicts
    /\ lists = NoLists
    /\ NoTokens

Type ==
    /\ pc = "typing"
    /\ nfrags < MaxFrags
    /\ \E f \in Fragments : list' = list \o f
    /\ nfrags' = nfrags + 1
    /\ UNCHANGED <<pc, line, result, cmdType, out, registries, head, verdicts, lists,
                   tokenizing, positive>>

\* the line is cleaned as executeLine cleans it and classified
Classify ==
    /\ pc = "typing"
    /\ \E input \in {cleanInputLine(head \o list)} :
          /\ input # <<>>
          /\ \E ub \in UBOutcomes :
                \E classified \in {isValidCommand(input, ub)} :
                    /\ cmdType' = classified.cmdType
                    /\ pc' = IF classified.returned THEN "classified" ELSE "aborted"
          /\ \E toks \in {tokenizeInput(input)} :
                /\ verdicts' = Verdicts(input, toks)
                /\ emitted' = toks
    /\ line' = head \o list
    /\ UNCHANGED <<result, out, registries, head, list, nfrags, lists, retokens,
                   branches, positive>>

\* the list typed so far, behind the Loot words and behind the LearnFormula
\* words
ValidateList ==
    /\ pc = "typing"
    /\ head \in {LootHead, FormulaHead}
    /\ line' = head \o list
    /\ lists' = [loot |-> ListAsLoot(list), formula |-> ListAsFormula(list)]
    /\ pc' = "validated"
    /\ UNCHANGED <<result, cmdType, out, registries, head, list, nfrags, verdicts,
                   tokenizing, positive>>

\* the cleaned line is tokenized, and so are its tokens joined again
Tokenize ==
    /\ pc = "typing"
    /\ \E input \in {cleanInputLine(head \o list)} :
          /\ input # <<>>
          /\ branches' = Branches(input)
          /\ \E toks \in {tokenizeInput(input)} :
                /\ emitted' = toks
                /\ retokens' = tokenizeInput(Rejoin(toks))
    /\ line' = head \o list
    /\ pc' = "tokenized"
    /\ UNCHANGED <<result, cmdType, out, registries, head, list, nfrags, verdicts,
                   lists, positive>>

NextParse ==
    \/ Type
    \/ Classify
    \/ ValidateList
    \/ Tokenize

SpecParse == InitParse /\ [][NextParse]_vars

(***************************************************************************)
(* The token run: a token is typed character by character, or is one of    *)
(* the two quantities at the edge of int, and isPositiveInteger is applied *)
(* to it.  The token typed is list.                                        *)
(***************************************************************************)
MaxDigits == 3

TokenChars == {"0", "1", "4", "A"}

InitToken ==
    /\ pc = "token"
    /\ line = <<>>
    /\ result = NoResult
    /\ cmdType = Unset
    /\ out = <<>>
    /\ InitTracker
    /\ head = <<>>
    /\ list = <<>>
    /\ nfrags = 0
    /\ verdicts = NoVerdicts
    /\ lists = NoLists
    /\ NoTokens

TypeChar ==
    /\ pc = "token"
    /\ Len(list) < MaxDigits
    /\ \E c \in TokenChars : list' = Append(list, c)
    /\ UNCHANGED <<pc, line, result, cmdType, out, registries, head, nfrags, verdicts,
                   lists, tokenizing, positive>>

TypeEdge ==
    /\ pc = "token"
    /\ list = <<>>
    /\ list' \in {Largest, TooLarge}
    /\ UNCHANGED <<pc, line, result, cmdType, out, registries, head, nfrags, verdicts,
                   lists, tokenizing, positive>>

ApplyIsPositiveInteger ==
    /\ pc = "token"
    /\ positive' = isPositiveInteger(list)
    /\ pc' = "judged"
    /\ UNCHANGED <<line, result, cmdType, out, registries, head, list, nfrags,
                   verdicts, lists, tokenizing>>

NextToken ==
    \/ TypeChar
    \/ TypeEdge
    \/ ApplyIsPositiveInteger

SpecToken == InitToken /\ [][NextToken]_vars

(***************************************************************************)
(* The run at the edge of int: main's loop over lines that loot INT_MAX of *)
(* an ingredient.  An addition that leaves the range of int is undefined:  *)
(* the build either keeps the sum less 2^32 (the default build,            *)
(* ExecuteEdge) or ends the process there (-ftrapv, OverflowTraps).        *)
(***************************************************************************)
\* every count within MaxCount of 0, of INT_MAX or of the least int
EdgeBounds(after) ==
    \A k \in DOMAIN after.inventory.ingredients :
        \E c \in {after.inventory.ingredients[k]} :
            \/ c >= -MaxCount /\ c <= MaxCount
            \/ c >= INT_MAX - MaxCount
            \/ c <= (-INT_MAX - 1) + MaxCount

\* a count fell in a turn that only adds: a sum left the range of int
Overflowed(before, after) ==
    \E k \in DOMAIN before.ingredients :
        after.ingredients[k] < before.ingredients[k]

ReadEdgeLine ==
    /\ pc = "getline"
    /\ \E ln \in EdgeLines : line' = ln
    /\ pc' = "read"
    /\ UNCHANGED <<result, cmdType, out, registries, parsing>>

\* executeLine on the line read; a sum behind INT_MAX was kept less 2^32
ExecuteEdge ==
    /\ pc = "read"
    /\ \E run \in {executeLine(line, Tracker, Reject)} :
          /\ run.returned
          /\ EdgeBounds(run.after)
          /\ cmdType' = run.cmdType
          /\ result' = run.after.result
          /\ out' = run.after.out
          /\ inventory' = run.after.inventory
          /\ alchemy' = run.after.alchemy
          /\ bestiary' = run.after.bestiary
    /\ pc' = "loop"
    /\ UNCHANGED <<line, parsing>>

\* executeLine on the line read; the process ended at a sum behind INT_MAX
OverflowTraps ==
    /\ pc = "read"
    /\ \E run \in {executeLine(line, Tracker, Reject)} :
          /\ run.returned
          /\ run.cmdType = "ACTION_LOOT"
          /\ Overflowed(inventory, run.after.inventory)
          /\ cmdType' = run.cmdType
    /\ pc' = "aborted"
    /\ UNCHANGED <<line, result, out, registries, parsing>>

NextEdge ==
    \/ Prompt
    \/ ReadEdgeLine
    \/ ExecuteEdge
    \/ OverflowTraps

SpecEdge == Init /\ [][NextEdge]_vars

(***************************************************************************)
(* Properties                                                              *)
(***************************************************************************)
\* the checkers that accept the line under test
Accepting == {c \in Checkers : verdicts[c] = Accept}

\* the command types a checker's acceptance stands for
ShapeOf(c) ==
    CASE c = "isLootAction" -> {"ACTION_LOOT"}
      [] c = "isTradeAction" -> {"ACTION_TRADE"}
      [] c = "isBrewAction" -> {"ACTION_BREW"}
      [] c = "isEffectivenessKnowledge" -> {"KNOWLEDGE_EFFECTIVENESS"}
      [] c = "isPotionFormulaKnowledge" -> {"KNOWLEDGE_POTION_FORMULA"}
      [] c = "isEncounterSentence" -> {"ENCOUNTER"}
      [] c = "isInventoryQuery" -> {"QUERY_SPECIFIC_INVENTORY", "QUERY_ALL_INVENTORY"}
      [] c = "isBestiaryQuery" -> {"QUERY_BESTIARY"}
      [] c = "isAlchemyQuery" -> {"QUERY_ALCHEMY"}
      [] c = "isExitCommand" -> {"EXIT_COMMAND"}

CommandTypes ==
    { "INVALID_COMMAND", "ACTION_LOOT", "ACTION_TRADE", "ACTION_BREW",
      "KNOWLEDGE_EFFECTIVENESS", "KNOWLEDGE_POTION_FORMULA", "ENCOUNTER",
      "QUERY_SPECIFIC_INVENTORY", "QUERY_ALL_INVENTORY", "QUERY_BESTIARY",
      "QUERY_ALCHEMY", "EXIT_COMMAND" }

\* C2: isValidCommand returns for every line it is given, with exactly one
\* CommandType (a shape or INVALID_COMMAND); it never ends in an exception
\* or a dead process instead of returning.
C2_ClassificationTotal ==
    pc \in {"classified", "aborted"} =>
        pc = "classified" /\ cmdType \in CommandTypes

\* a turn of the loop in which executeLine ran on the line read and returned
Executed == pc = "read" /\ pc' = "loop"

\* C3: a line that is empty after cleaning, or that no shape-checker
\* accepts, makes executeLine return -1 and main print INVALID once and
\* nothing else, and leaves inventory, alchemy and bestiary as they were.
C3_InvalidRefused ==
    [][ (Executed /\ cmdType' \in {Unset, "INVALID_COMMAND"}) =>
            /\ result' = -1
            /\ out' = Says("INVALID", <<>>)
            /\ UNCHANGED registries ]_vars

\* an invalid line was refused while the inventory held something
C3_Witness ==
    /\ pc = "loop"
    /\ cmdType = "INVALID_COMMAND"
    /\ result = -1
    /\ out = Says("INVALID", <<>>)
    /\ getIngredientQuantity(inventory, <<"A">>) > 0

\* a single alphabetic word
IsWord(name) == name # <<>> /\ \A k \in 1..Len(name) : isalpha(name[k])

\* words with one space between them
IsPotionName(name) ==
    /\ name # <<>>
    /\ name[1] # " "
    /\ name[Len(name)] # " "
    /\ \A k \in 1..Len(name) :
           IF name[k] = " " THEN name[k - 1] # " " ELSE isalpha(name[k])

\* C4: every name stored in a registry follows the rule of its kind:
\* monsters, trophies, signs and ingredients are single alphabetic words,
\* potion names (recipes, potion inventory, effective-potion lists) are
\* alphabetic words with single spaces between them.
C4_NamesConform ==
    /\ \A m \in DOMAIN bestiary.beasts :
           /\ IsWord(m)
           /\ \A k \in 1..Len(bestiary.beasts[m].effectiveSigns) :
                  IsWord(bestiary.beasts[m].effectiveSigns[k])
           /\ \A k \in 1..Len(bestiary.beasts[m].effectivePotions) :
                  IsPotionName(bestiary.beasts[m].effectivePotions[k])
    /\ \A t \in DOMAIN inventory.trophies : IsWord(t)
    /\ \A n \in DOMAIN inventory.ingredients : IsWord(n)
    /\ \A g \in DOMAIN alchemy.signs : IsWord(g)
    /\ \A n \in DOMAIN inventory.potions : IsPotionName(n)
    /\ \A n \in DOMAIN alchemy.potions :
           /\ IsPotionName(n)
           /\ \A k \in 1..Len(alchemy.potions[n].ingredientNames) :
                  IsWord(alchemy.potions[n].ingredientNames[k])

\* the tokens of the line read, as the handler of the turn had them
LineTokens == Parsed(line, Reject).tokens

\* tokens from (0-based) up to to, without the separators in drop
ItemsBetween(toks, from, to, drop) ==
    SelectSeq(SubSeq(toks, from + 1, to), LAMBDA t : t \notin drop)

\* the quantity listed in all for name, where items is quantity, name,
\* quantity, name, ...
RECURSIVE ListedTotal(_, _)
ListedTotal(items, name) ==
    IF Len(items) < 2 THEN 0
    ELSE (IF items[2] = name THEN stoi(items[1]) ELSE 0)
         + ListedTotal(SubSeq(items, 3, Len(items)), name)

\* the names of the items
ListedNames(items) == {items[2 * k] : k \in 1..(Len(items) \div 2)}

RECURSIVE RecipeTotal(_, _, _)
RecipeTotal(names, quantities, name) ==
    IF names = <<>> THEN 0
    ELSE (IF names[1] = name THEN quantities[1] ELSE 0)
         + RecipeTotal(Tail(names), Tail(quantities), name)

\* C6: a Brew of P that reports "Alchemy item created" had a formula for P
\* and, for every ingredient name of the formula, an inventory of at least
\* the total the formula lists for the name; it takes exactly that total
\* from each and adds exactly one P to the potions.
C6_BrewConsumesTotals ==
    [][ (Executed /\ cmdType' = "ACTION_BREW"
         /\ out' = Says("Alchemy item created: ", LineTokens[3])) =>
            LET P == LineTokens[3]
            IN  /\ HasKey(alchemy.potions, P)
                /\ hasFormula(alchemy.potions[P])
                /\ \A k \in 1..Len(alchemy.potions[P].ingredientNames) :
                      LET n == alchemy.potions[P].ingredientNames[k]
                          total == RecipeTotal(alchemy.potions[P].ingredientNames,
                                               alchemy.potions[P].ingredientQuantities, n)
                      IN  /\ getIngredientQuantity(inventory, n) >= total
                          /\ getIngredientQuantity(inventory', n)
                                 = getIngredientQuantity(inventory, n) - total
                /\ getPotionQuantity(inventory', P)
                       = getPotionQuantity(inventory, P) + 1 ]_vars

\* C7: a Trade that reports "Trade successful" held, for every trophy name
\* of the line, at least the total the line asks for the name; it takes
\* exactly that total from each trophy and adds to each offered ingredient
\* exactly the total the line lists for it.
C7_TradeExchangesTotals ==
    [][ (Executed /\ cmdType' = "ACTION_TRADE"
         /\ out' = Says("Trade successful", <<>>)) =>
            LET forIndex == FirstIndex(LineTokens, kw_for)
                trophies == ItemsBetween(LineTokens, 2, forIndex, {kw_comma, kw_trophy})
                offered == ItemsBetween(LineTokens, forIndex + 1, Len(LineTokens),
                                        {kw_comma})
            IN  /\ \A t \in ListedNames(trophies) :
                       /\ getTrophyQuantity(inventory, t) >= ListedTotal(trophies, t)
                       /\ getTrophyQuantity(inventory', t)
                              = getTrophyQuantity(inventory, t) - ListedTotal(trophies, t)
                /\ \A n \in ListedNames(offered) :
                       getIngredientQuantity(inventory', n)
                           = getIngredientQuantity(inventory, n) + ListedTotal(offered, n) ]_vars

\* C8: an Encounter with M reports "Geralt defeats M" exactly when the
\* bestiary has an entry for M with a sign in its list of effective signs
\* or with an effective potion of which the inventory holds at least one;
\* in every other case it reports that Geralt is unprepared.
C8_EncounterWonIff ==
    [][ (Executed /\ cmdType' = "ENCOUNTER") =>
            LET M == LineTokens[4]
                prepared ==
                    /\ HasKey(bestiary.beasts, M)
                    /\ \/ Len(bestiary.beasts[M].effectiveSigns) >= 1
                       \/ \E k \in 1..Len(bestiary.beasts[M].effectivePotions) :
                              Quantity(inventory.potions,
                                       bestiary.beasts[M].effectivePotions[k]) > 0
            IN  /\ (out' = Says("Geralt defeats ", M)) <=> prepared
                /\ ~prepared =>
                       out' = Says("Geralt is unprepared and barely escapes with his life",
                                   <<>>) ]_vars

\* M was defeated with no sign known against it: a potion did it
C8_Witness ==
    /\ pc = "loop"
    /\ cmdType = "ENCOUNTER"
    /\ out = Says("Geralt defeats ", <<"M">>)
    /\ bestiary.beasts[<<"M">>].effectiveSigns = <<>>

\* C9: after an accepted line "Geralt learns <name> <type> is effective
\* against <monster>" the name (third token) is on the list of the monster
\* (eighth token): the sign list when the type (fourth token) is "sign",
\* the potion list when it is "potion".
C9_EffectivenessRecorded ==
    [][ (Executed /\ cmdType' = "KNOWLEDGE_EFFECTIVENESS") =>
            LET name == LineTokens[3]
                type == LineTokens[4]
                monster == LineTokens[8]
            IN  /\ HasKey(bestiary'.beasts, monster)
                /\ IF type = kw_sign
                   THEN Contains(bestiary'.beasts[monster].effectiveSigns, name)
                   ELSE Contains(bestiary'.beasts[monster].effectivePotions, name) ]_vars

\* C10: a list text is accepted behind "Geralt learns X potion consists
\* of" exactly when it is accepted behind "Geralt loots", and the two
\* handlers then read the same pairs from it.
C10_ListValidatedAsLoot ==
    pc = "validated" =>
        /\ (lists.formula.verdict = Accept) <=> (lists.loot.verdict = Accept)
        /\ lists.formula.pairs = lists.loot.pairs

\* C11: a line that executeLine classifies as EXIT_COMMAND is, as it was
\* read, exactly the word Exit: no whitespace before or behind it, nothing
\* else.
C11_ExitOnlyExact ==
    [][ (Executed /\ cmdType' = "EXIT_COMMAND") => line = kw_Exit ]_vars

\* C12: the loop ends at the end of the input or at Exit.  A line that is
\* the word Exit, or that the classification tags EXIT_COMMAND, ends the
\* session; nothing is read after the end; every other line on which
\* executeLine returns has written exactly one response (the message of its
\* handler, or INVALID) when the loop is back at its top.
C12_LoopUntilExit ==
    [][ /\ (pc = "read" /\ pc' # "aborted") =>
               IF line = kw_Exit \/ cmdType' = "EXIT_COMMAND"
               THEN pc' = "done"
               ELSE pc' = "loop" /\ Len(out') = 1
        /\ pc = "done" => pc' = "done" ]_vars

\* the first word of the cleaned line is word
LeadingWord(input, word) == WordAt(input, 0, word)

\* what stands behind the first '?' of the line
BehindQuestion(input) ==
    SubSeq(input, SkipUntil(input, 0, {"?"}) + 2, Len(input))

\* something other than whitespace
HasContent(text) == \E k \in 1..Len(text) : ~isspace(text[k])

QueryTypes ==
    { "QUERY_SPECIFIC_INVENTORY", "QUERY_ALL_INVENTORY", "QUERY_BESTIARY",
      "QUERY_ALCHEMY" }

\* the indices of the tokens that are t
IndicesOf(toks, t) == {k \in 1..Len(toks) : toks[k] = t}

NothingBehindQuestion(input, toks, type) ==
    /\ HasContent(BehindQuestion(input)) => type = "INVALID_COMMAND"
    /\ type \in QueryTypes => IndicesOf(toks, kw_question) = {Len(toks)}
    /\ type = "QUERY_ALCHEMY" => Len(toks) = 5
    /\ type = "QUERY_BESTIARY" => Len(toks) = 6

\* C13: a line that begins with the word What or Total and has anything but
\* whitespace behind its first '?' is INVALID_COMMAND; the tokens of an
\* accepted query end with the first '?' token, an accepted alchemy query
\* has 5 tokens and an accepted bestiary query 6.
C13_NothingBehindQuestion ==
    (/\ pc = "classified"
     /\ \/ LeadingWord(cleanInputLine(line), kw_What)
        \/ LeadingWord(cleanInputLine(line), kw_Total)) =>
        NothingBehindQuestion(cleanInputLine(line), emitted, cmdType)

\* "What is in A??" was refused
C13_Witness ==
    /\ pc = "classified"
    /\ line = Sentence(<<kw_What, kw_is, kw_in, <<"A">>>>) \o <<"?", "?">>
    /\ cmdType = "INVALID_COMMAND"

Categories == {kw_ingredient, kw_potion, kw_trophy}

\* [Total, category, ?]
IsAllInventory(toks) ==
    /\ Len(toks) = 3
    /\ toks[1] = kw_Total
    /\ toks[2] \in Categories
    /\ toks[3] = kw_question

\* [Total, category, name, ?], the name a word, or words with single spaces
\* for a potion
IsSpecificInventory(toks) ==
    /\ Len(toks) = 4
    /\ toks[1] = kw_Total
    /\ toks[2] \in Categories
    /\ toks[4] = kw_question
    /\ IF toks[2] = kw_potion THEN IsPotionName(toks[3]) ELSE IsWord(toks[3])

\* C14: a line that begins with the word Total is QUERY_ALL_INVENTORY
\* exactly when its tokens are [Total, category, ?], and
\* QUERY_SPECIFIC_INVENTORY exactly when they are [Total, category, name, ?]
\* with a name that is alphabetic (ingredient, trophy) or letters with single
\* spaces (potion); every other such line is INVALID_COMMAND.
C14_TotalLines ==
    (/\ pc \in {"classified", "aborted"}
     /\ LeadingWord(cleanInputLine(line), kw_Total)) =>
        /\ pc = "classified"
        /\ cmdType \in {"QUERY_ALL_INVENTORY", "QUERY_SPECIFIC_INVENTORY",
                        "INVALID_COMMAND"}
        /\ cmdType = "QUERY_ALL_INVENTORY" <=> IsAllInventory(emitted)
        /\ cmdType = "QUERY_SPECIFIC_INVENTORY" <=> IsSpecificInventory(emitted)

\* "Total potion A A?" is a query for the potion "A A"
C14_Witness ==
    /\ pc = "classified"
    /\ cmdType = "QUERY_SPECIFIC_INVENTORY"
    /\ emitted = <<kw_Total, kw_potion, <<"A", " ", "A">>, kw_question>>

\* a decimal numeral of a value above 0, written without a leading zero
IsPositiveDecimal(token) ==
    /\ token # <<>>
    /\ \A k \in 1..Len(token) : isdigit(token[k])
    /\ token[1] # "0"

\* C15: isPositiveInteger returns true for a token exactly when the token
\* is not empty, is made of decimal digits only, has no leading zero and
\* denotes a value above 0.
C15_PositiveInteger ==
    pc = "judged" => (positive = Accept <=> IsPositiveDecimal(list))

\* the comma token at index k stands behind the name of a list item and
\* before the quantity of the next
CommaBetweenItems(toks, k) ==
    /\ k > 2
    /\ k < Len(toks)
    /\ IsPositiveDecimal(toks[k - 2])
    /\ IsWord(toks[k - 1])
    /\ IsPositiveDecimal(toks[k + 1])

\* the line begins or ends with a comma, or has two commas with nothing but
\* whitespace between them
CommaMisplaced(input) ==
    /\ input # <<>>
    /\ \/ input[1] = ","
       \/ input[Len(input)] = ","
       \/ \E i, j \in 1..Len(input) :
             /\ i < j
             /\ input[i] = ","
             /\ input[j] = ","
             /\ \A m \in (i + 1)..(j - 1) : isspace(input[m])

\* C16: in the tokens of an accepted line every comma token stands directly
\* behind the name of a list item and directly before the quantity of the
\* next item, so it is never first, never last and never next to another
\* comma; a line with a leading, trailing or doubled comma is
\* INVALID_COMMAND.
C16_CommasBetweenItems ==
    pc = "classified" =>
        /\ cmdType # "INVALID_COMMAND" =>
               \A k \in IndicesOf(emitted, kw_comma) : CommaBetweenItems(emitted, k)
        /\ CommaMisplaced(cleanInputLine(line)) => cmdType = "INVALID_COMMAND"

\* "Geralt loots 1 A, 1 A" was accepted
C16_Witness ==
    /\ pc = "classified"
    /\ cmdType = "ACTION_LOOT"
    /\ emitted = <<kw_Geralt, kw_loots, <<"1">>, <<"A">>, kw_comma, <<"1">>, <<"A">>>>

\* C17: for every line, tokenizing the tokens of tokenizeInput joined with
\* single spaces (a comma token attached to the token before it) gives the
\* same token sequence again
C17_TokenizerIdempotent ==
    pc = "tokenized" => retokens = emitted

\* C18: tokenizeInput chooses its What, Total or Geralt branch by the first
\* word of the line only: the Total branch runs only on lines whose first
\* word is Total, and the tokens it returns never come from two branches
C18_BranchByLeadingWord ==
    pc = "tokenized" =>
        /\ Cardinality(branches) <= 1
        /\ "Total" \in branches => LeadingWord(cleanInputLine(line), kw_Total)

\* C19: an accepted Trade line has exactly one token "for"; the token before
\* it is the "trophy" that ends a non-empty trophy list, and a non-empty
\* ingredient list follows it
OneForBetweenLists(toks) ==
    \E k \in 1..Len(toks) :
        /\ IndicesOf(toks, kw_for) = {k}
        /\ k > 5
        /\ toks[k - 1] = kw_trophy
        /\ k + 2 <= Len(toks)

C19_OneFor ==
    (pc = "classified" /\ cmdType = "ACTION_TRADE") => OneForBetweenLists(emitted)

\* the names learned as effective against the monster, signs and potions
LearnedAgainst(best, monster) ==
    IF ~HasKey(best.beasts, monster) THEN {}
    ELSE LET both == best.beasts[monster].effectiveSigns
                         \o best.beasts[monster].effectivePotions
         IN  {both[k] : k \in 1..Len(both)}

\* C20: a bestiary query for M prints "No knowledge of M" exactly when
\* nothing has been learned as effective against M; otherwise it prints
\* every sign and potion learned against M, each name once, in ascending
\* order
C20_BestiaryQuery ==
    [][ (Executed /\ cmdType' = "QUERY_BESTIARY") =>
            LET M == LineTokens[5]
                learned == LearnedAgainst(bestiary, M)
            IN  /\ (out' = Says("No knowledge of ", M)) <=> learned = {}
                /\ learned # {} => out' = Says("", FormatNames(KeysInOrder(learned))) ]_vars

\* the map of the inventory that holds the category
CategoryMap(inv, category) ==
    IF category = kw_ingredient THEN inv.ingredients
    ELSE IF category = kw_potion THEN inv.potions
    ELSE inv.trophies

\* text is "<count> <name>, <count> <name>, ..." for the names in this order
RECURSIVE IsListingOf(_, _, _)
IsListingOf(text, names, m) ==
    IF names = <<>> THEN text = <<>>
    ELSE LET item == to_string(m[names[1]]) \o <<" ">> \o names[1]
             rest == IF Len(names) = 1 THEN item ELSE item \o <<",", " ">>
         IN  /\ Len(text) >= Len(rest)
             /\ SubSeq(text, 1, Len(rest)) = rest
             /\ IsListingOf(SubSeq(text, Len(rest) + 1, Len(text)), Tail(names), m)

\* C21: "Total <category> ?" prints exactly the items of the category whose
\* count is above 0, each with its count, in ascending order of the names,
\* and prints "None" exactly when no item of the category has a count
\* above 0
C21_TotalListsPositive ==
    [][ (Executed /\ cmdType' = "QUERY_ALL_INVENTORY") =>
            LET m == CategoryMap(inventory, LineTokens[2])
                held == {n \in DOMAIN m : m[n] > 0}
            IN  /\ (out' = Says("None", <<>>)) <=> held = {}
                /\ held # {} =>
                       \E names \in {KeysInOrder(held)} :
                           /\ \A k \in 1..(Len(names) - 1) :
                                  StringLess(names[k], names[k + 1])
                           /\ Len(out') = 1 /\ out'[1].text = ""
                           /\ IsListingOf(out'[1].arg, names, m) ]_vars

\* "Total ingredient ?" said None while B was in the map with the count 0
C21_Witness ==
    /\ pc = "loop"
    /\ cmdType = "QUERY_ALL_INVENTORY"
    /\ line = Sentence(<<kw_Total, kw_ingredient, kw_question>>)
    /\ out = Says("None", <<>>)
    /\ HasKey(inventory.ingredients, <<"B">>)

\* what a Brew, a Trade or an Encounter prints when it fails
FailureReports ==
    { <<"ACTION_BREW", "No formula for ">>,
      <<"ACTION_BREW", "Not enough ingredients">>,
      <<"ACTION_TRADE", "Not enough trophies">>,
      <<"ENCOUNTER", "Geralt is unprepared and barely escapes with his life">> }

\* C22: a Brew that reports "No formula" or "Not enough ingredients", a
\* Trade that reports "Not enough trophies" and an Encounter that reports
\* Geralt unprepared leave inventory, alchemy and bestiary as they were
C22_FailureChangesNothing ==
    [][ (Executed /\ Len(out') = 1 /\ <<cmdType', out'[1].text>> \in FailureReports)
            => UNCHANGED registries ]_vars

\* a trade was refused for want of trophies while ingredients were held
C22_Witness ==
    /\ pc = "loop"
    /\ cmdType = "ACTION_TRADE"
    /\ out = Says("Not enough trophies", <<>>)
    /\ getIngredientQuantity(inventory, <<"A">>) > 0

\* C23: a won Encounter with M adds exactly 1 to the trophy count of M and
\* takes exactly 1 from the count of every potion effective against M whose
\* count is above 0, a known sign or not; no ingredient count, no other
\* potion or trophy count, no recipe and no bestiary entry changes
C23_WonEncounterFrame ==
    [][ (Executed /\ cmdType' = "ENCOUNTER"
            /\ out' = Says("Geralt defeats ", LineTokens[4])) =>
            LET M == LineTokens[4]
                effective == bestiary.beasts[M].effectivePotions
            IN  /\ \A n \in DOMAIN inventory.trophies \cup DOMAIN inventory'.trophies :
                       getTrophyQuantity(inventory', n)
                           = getTrophyQuantity(inventory, n) + (IF n = M THEN 1 ELSE 0)
                /\ \A n \in DOMAIN inventory.potions \cup DOMAIN inventory'.potions :
                       getPotionQuantity(inventory', n)
                           = getPotionQuantity(inventory, n)
                               - (IF Contains(effective, n)
                                     /\ getPotionQuantity(inventory, n) > 0
                                  THEN 1 ELSE 0)
                /\ \A n \in DOMAIN inventory.ingredients
                                \cup DOMAIN inventory'.ingredients :
                       getIngredientQuantity(inventory', n)
                           = getIngredientQuantity(inventory, n)
                /\ alchemy' = alchemy
                /\ bestiary' = bestiary ]_vars

\* M was defeated with a sign known against it, and the potion P that is
\* effective against M has been brewed and is used up
C23_Witness ==
    /\ pc = "loop"
    /\ cmdType = "ENCOUNTER"
    /\ out = Says("Geralt defeats ", <<"M">>)
    /\ bestiary.beasts[<<"M">>].effectiveSigns # <<>>
    /\ Contains(bestiary.beasts[<<"M">>].effectivePotions, <<"P">>)
    /\ HasKey(inventory.potions, <<"P">>)
    /\ getPotionQuantity(inventory, <<"P">>) = 0

\* no element of the list stands in it twice
NoDuplicates(names) ==
    \A j, k \in 1..Len(names) : names[j] = names[k] => j = k

\* the line executed once more on the tracker w
ExecutedAgain(w) == executeLine(line, w, Reject).after

\* C24: an accepted line "Geralt learns <name> <type> is effective against
\* <monster>" executed a second time reports "Already known effectiveness"
\* and changes no registry; no sign list and no potion list of a beast holds
\* a name twice; and "New bestiary entry added" is reported exactly when the
\* monster (eighth token) had no bestiary entry before the line
C24_LearningIdempotent ==
    [][ (Executed /\ cmdType' = "KNOWLEDGE_EFFECTIVENESS") =>
            LET monster == LineTokens[8]
                again == ExecutedAgain(Tracker')
            IN  /\ again.out = Says("Already known effectiveness", <<>>)
                /\ again.inventory = inventory'
                /\ again.alchemy = alchemy'
                /\ again.bestiary = bestiary'
                /\ \A b \in DOMAIN bestiary'.beasts :
                       /\ NoDuplicates(bestiary'.beasts[b].effectiveSigns)
                       /\ NoDuplicates(bestiary'.beasts[b].effectivePotions)
                /\ (Len(out') = 1 /\ out'[1].text = "New bestiary entry added: ")
                       <=> ~HasKey(bestiary.beasts, monster) ]_vars

\* the recipe is the items "<quantity> <name>" of the line, in their order
RecipeIsItems(potion, items) ==
    /\ Len(potion.ingredientNames) * 2 = Len(items)
    /\ Len(potion.ingredientQuantities) * 2 = Len(items)
    /\ \A k \in 1..Len(potion.ingredientNames) :
           /\ potion.ingredientNames[k] = items[2 * k]
           /\ potion.ingredientQuantities[k] = stoi(items[2 * k - 1])

\* at least one ingredient, as many quantities as names, all above 0
WellFormedRecipe(potion) ==
    /\ Len(potion.ingredientNames) >= 1
    /\ Len(potion.ingredientQuantities) = Len(potion.ingredientNames)
    /\ \A k \in 1..Len(potion.ingredientQuantities) :
           potion.ingredientQuantities[k] > 0

\* C25: the first accepted line "Geralt learns P potion consists of ..."
\* stores P with the pairs of the line in their order; every later one for
\* P reports "Already known formula"; no command changes the ingredients
\* or quantities recorded for a potion; every recipe stored has at least
\* one ingredient, as many names as quantities and only quantities above 0
C25_FormulaWriteOnce ==
    [][ /\ (Executed /\ cmdType' = "KNOWLEDGE_POTION_FORMULA") =>
               LET P == LineTokens[3]
                   items == ItemsBetween(LineTokens, 6, Len(LineTokens), {kw_comma})
               IN  IF HasKey(alchemy.potions, P)
                   THEN out' = Says("Already known formula", <<>>)
                   ELSE /\ out' = Says("New alchemy formula obtained: ", P)
                        /\ HasKey(alchemy'.potions, P)
                        /\ RecipeIsItems(alchemy'.potions[P], items)
        /\ \A P \in DOMAIN alchemy.potions :
               /\ HasKey(alchemy'.potions, P)
               /\ alchemy'.potions[P].ingredientNames
                      = alchemy.potions[P].ingredientNames
               /\ alchemy'.potions[P].ingredientQuantities
                      = alchemy.potions[P].ingredientQuantities
        /\ \A P \in DOMAIN alchemy'.potions : WellFormedRecipe(alchemy'.potions[P])
      ]_vars

\* the formula "2 B" for P was refused: P is known with the recipe 1 A, 1 A
C25_Witness ==
    /\ pc = "loop"
    /\ cmdType = "KNOWLEDGE_POTION_FORMULA"
    /\ out = Says("Already known formula", <<>>)
    /\ line = Sentence(<<kw_Geralt, kw_learns, <<"P">>, kw_potion, kw_consists, kw_of,
                         <<"2">>, <<"B">>>>)
    /\ alchemy.potions[<<"P">>].ingredientNames = << <<"A">>, <<"A">> >>

\* C26: in every state every ingredient, potion and trophy count is at
\* least 0
C26_CountsNonNegative ==
    /\ \A k \in DOMAIN inventory.ingredients : inventory.ingredients[k] >= 0
    /\ \A k \in DOMAIN inventory.potions : inventory.potions[k] >= 0
    /\ \A k \in DOMAIN inventory.trophies : inventory.trophies[k] >= 0

\* C27: no shape-checker reads a token at an index that is not below the
\* number of tokens of the line; isEffectivenessKnowledge reads the tokens
\* at the indices 5, 6 and 7 only of at least 8 tokens
C27_ReadsWithinTokens ==
    pc \in {"classified", "aborted"} =>
        \A c \in Checkers : verdicts[c] # OutOfBounds

\* C28: a potion has a count above 0 only if a formula is known for its
\* name; counts of potions rise only in a Brew of a potion with a formula
C28_PotionNeedsFormula ==
    [][ /\ \A n \in DOMAIN inventory'.potions :
               inventory'.potions[n] > 0 =>
                   /\ HasKey(alchemy'.potions, n)
                   /\ hasFormula(alchemy'.potions[n])
        /\ \A n \in DOMAIN inventory'.potions :
               getPotionQuantity(inventory', n) > getPotionQuantity(inventory, n) =>
                   /\ Executed
                   /\ cmdType' = "ACTION_BREW"
                   /\ HasKey(alchemy.potions, n)
                   /\ hasFormula(alchemy.potions[n]) ]_vars

\* P was brewed
C28_Witness ==
    /\ pc = "loop"
    /\ cmdType = "ACTION_BREW"
    /\ out = Says("Alchemy item created: ", <<"P">>)
    /\ getPotionQuantity(inventory, <<"P">>) > 0

\* C29: a trophy count above 0 belongs to a monster with a bestiary entry; a
\* trophy count rises only in an executed Encounter that is won, against a
\* monster that had a bestiary entry before it; and a Trade reports success
\* only when some trophy count was above 0 before it
C29_TrophyNeedsBeast ==
    [][ /\ \A n \in DOMAIN inventory'.trophies :
               getTrophyQuantity(inventory', n) > 0 => HasKey(bestiary'.beasts, n)
        /\ \A n \in DOMAIN inventory'.trophies :
               getTrophyQuantity(inventory', n) > getTrophyQuantity(inventory, n) =>
                   /\ Executed
                   /\ cmdType' = "ENCOUNTER"
                   /\ out' = Says("Geralt defeats ", n)
                   /\ HasKey(bestiary.beasts, n)
        /\ (Executed /\ cmdType' = "ACTION_TRADE"
                /\ out' = Says("Trade successful", <<>>)) =>
               \E n \in DOMAIN inventory.trophies :
                   /\ getTrophyQuantity(inventory, n) > 0
                   /\ HasKey(bestiary.beasts, n) ]_vars

\* a Trade has succeeded; the trophy of M it took is spent
C29_Witness ==
    /\ pc = "loop"
    /\ cmdType = "ACTION_TRADE"
    /\ out = Says("Trade successful", <<>>)
    /\ HasKey(inventory.trophies, <<"M">>)
    /\ getTrophyQuantity(inventory, <<"M">>) = 0
    /\ HasKey(bestiary.beasts, <<"M">>)
====
